---------------------------- MODULE Spec2Model ----------------------------
(***************************************************************************)
(* A model of hostlist_iter: SimpleRange (one inclusive interval with a    *)
(* cursor), Range (a condensed union of SimpleRanges), HostlistElem (an    *)
(* odometer over the ranges of one entry) and Hostlist (the merged, sorted *)
(* collection of elements).                                                *)
(*                                                                         *)
(* Machine integers: TLC's integers are 32-bit signed, so u32 and usize    *)
(* are modelled at a reduced width that keeps their relation: u32 holds    *)
(* 0..U32_MAX, and usize holds 0..USIZE_MAX with                           *)
(* USIZE_MAX + 1 = (U32_MAX + 1)^2 (as 2^64 = (2^32)^2).                   *)
(*                                                                         *)
(* Option<T> is a sequence: <<>> is None, <<v>> is Some(v).                *)
(* Result<T> is a record [ok, val, err]; err is a tuple naming the Error   *)
(* variant and its fields.                                                 *)
(* A String is a sequence of character codes (ASCII).                      *)
(***************************************************************************)
EXTENDS Integers, Sequences, FiniteSets, TLC

(* ------------------------------ bounds -------------------------------- *)

\* The largest value of the (reduced-width) u32.  u32::MAX in the source.
U32_MAX == 11

\* Interval bounds used as inputs of the range-set specification are drawn
\* from 0..MaxVal and from the top of the u32 domain.
MaxVal == 3

\* The operands of merge are the range sets built by at most MaxOtherAdds
\* calls of add_range with intervals over 0..MaxVal.
MaxOtherAdds == 2

\* An expression has at most MaxEntries entries.
MaxEntries == 2

\* The calls of next() that returned None are counted up to MaxNones.
MaxNones == 2

\* The length of the longest vector given to collapse_range.
MaxNums == 4

\* The length of the longest list of names given to collapse_hosts.
MaxHosts == 3

\* A list that views are taken of has at most MaxViewEntries entries, or is
\* one of three lists of two elements.
MaxViewEntries == 1

\* An expression that is rendered, expanded and collapsed has at most
\* MaxRtEntries entries.
MaxRtEntries == 2

\* How many calls of update_len and of Range::reset are made on one element
\* in one run.
MaxElemCalls == 3

(* --------------------------- machine integers -------------------------- *)

U32_MOD == U32_MAX + 1

USIZE_MAX == (U32_MOD * U32_MOD) - 1

U32 == 0..U32_MAX

\* u32 addition and subtraction as a release build computes them (wrapping).
Add32(a, b) == (a + b) % U32_MOD

Sub32(a, b) == (a - b + U32_MOD) % U32_MOD

\* usize::checked_mul, usize::checked_add: None on overflow.
checked_mul(a, b) == IF a * b > USIZE_MAX THEN <<>> ELSE <<a * b>>

checked_add(a, b) == IF a + b > USIZE_MAX THEN <<>> ELSE <<a + b>>

None == <<>>

Some(v) == <<v>>

IsSome(o) == Len(o) = 1

Ok(v) == [ok |-> TRUE, val |-> v, err |-> <<>>]

Err(e) == [ok |-> FALSE, val |-> <<>>, err |-> e]

(* ------------------------------ ordering ------------------------------- *)

\* Lexicographic comparison of two sequences of integers (Vec<u8>, String,
\* Option<u32>): -1, 0 or 1.  None < Some(_), a proper prefix is smaller.
RECURSIVE CmpSeq(_, _)
CmpSeq(s, t) ==
    IF s = <<>> /\ t = <<>> THEN 0
    ELSE IF s = <<>> THEN -1
    ELSE IF t = <<>> THEN 1
    ELSE IF Head(s) < Head(t) THEN -1
    ELSE IF Head(s) > Head(t) THEN 1
    ELSE CmpSeq(Tail(s), Tail(t))

CmpInt(a, b) == IF a < b THEN -1 ELSE IF a > b THEN 1 ELSE 0

(* ----------------------------- SimpleRange ----------------------------- *)

SimpleRange_new_NoSentinel(start, end) ==
    IF start > end
    THEN Err(<<"InvalidRangeReversed", start, end>>)
    ELSE Ok([start |-> start, end |-> end, current |-> Some(start)])

SimpleRange_new(start, end) ==
    IF start > end
    THEN Err(<<"InvalidRangeReversed", start, end>>)
    ELSE IF end = U32_MAX
    THEN Err(<<"TooLarge", end>>)
    ELSE Ok([start |-> start, end |-> end, current |-> Some(start)])

SimpleRange_reset(r) == [r EXCEPT !.current = Some(r.start)]

SimpleRange_len(r) ==
    IF IsSome(r.current) THEN Add32(Sub32(r.end, r.current[1]), 1) ELSE 0

\* next() that always moves the cursor to value + 1, also past `end`.
SimpleRange_next_NoEnd(r) ==
    IF IsSome(r.current)
    THEN [self |-> [r EXCEPT !.current = Some(Add32(r.current[1], 1))],
          ret |-> Some(r.current[1])]
    ELSE [self |-> r, ret |-> None]

\* next(): the pair of the range after the call and the returned Option.
SimpleRange_next(r) ==
    IF IsSome(r.current)
    THEN [self |-> [r EXCEPT !.current =
                        IF r.current[1] = r.end THEN None
                        ELSE Some(Add32(r.current[1], 1))],
          ret |-> Some(r.current[1])]
    ELSE [self |-> r, ret |-> None]

\* iter() that starts the view at the consuming cursor.
SimpleRange_iter_AtCursor(r) ==
    [current |-> IF IsSome(r.current) THEN r.current[1] ELSE Add32(r.end, 1),
     end |-> r.end]

\* SimpleRange::iter: a SimpleRangeIter over start..=end.
SimpleRange_iter(r) == [current |-> r.start, end |-> r.end]

\* IntoIterator for &SimpleRange.
SimpleRange_into_iter(r) == [current |-> r.start, end |-> r.end]

\* Iterator for SimpleRangeIter::next: the view after the call and the
\* returned Option.
SimpleRangeIter_next(it) ==
    IF it.current <= it.end
    THEN [self |-> [it EXCEPT !.current = Add32(it.current, 1)],
          ret |-> Some(it.current)]
    ELSE [self |-> it, ret |-> None]

\* SimpleRangeIter::size_hint: the pair (remaining, Some(remaining)).
SimpleRangeIter_size_hint(it) ==
    IF it.current <= it.end
    THEN <<Add32(Sub32(it.end, it.current), 1),
           Some(Add32(Sub32(it.end, it.current), 1))>>
    ELSE <<0, Some(0)>>

\* ExactSizeIterator for SimpleRangeIter::len.
SimpleRangeIter_len(it) ==
    IF it.current <= it.end THEN Add32(Sub32(it.end, it.current), 1) ELSE 0

\* #[derive(Ord)] on SimpleRange: start, then end, then current.
CmpSimpleRange(x, y) ==
    IF x.start # y.start THEN CmpInt(x.start, y.start)
    ELSE IF x.end # y.end THEN CmpInt(x.end, y.end)
    ELSE CmpSeq(x.current, y.current)

(* -------------------------------- Range -------------------------------- *)

Range_new == [ranges |-> <<>>, latest |-> None]

\* One iteration of the scan `for r in &self.ranges` of add_range over the
\* fragment st = (lo, hi): st.keep is `keep`, st.brk the `break`, st.pushed
\* the fragments inserted into the work queue.
ScanStepNoSplit(st, r) ==
    LET a == r.start
        b == r.end
    IN  IF st.lo >= a /\ st.hi <= b
        THEN [st EXCEPT !.keep = FALSE, !.brk = TRUE]
        ELSE IF st.lo < a /\ st.hi > b
        THEN [st EXCEPT !.hi = Sub32(a, 1)]
        ELSE IF st.hi >= a /\ st.hi <= b
        THEN [st EXCEPT !.hi = Sub32(a, 1)]
        ELSE IF st.lo >= a /\ st.lo <= b
        THEN [st EXCEPT !.lo = Add32(b, 1)]
        ELSE st

\* The body of the scan without the check for a redundant fragment.
ScanStep_NoRedundant(st, r) ==
    LET a == r.start
        b == r.end
    IN  IF st.lo < a /\ st.hi > b
        THEN [st EXCEPT !.pushed = @ \cup {<<Add32(b, 1), st.hi>>},
                        !.hi = Sub32(a, 1)]
        ELSE IF st.hi >= a /\ st.hi <= b
        THEN [st EXCEPT !.hi = Sub32(a, 1)]
        ELSE IF st.lo >= a /\ st.lo <= b
        THEN [st EXCEPT !.lo = Add32(b, 1)]
        ELSE st

ScanStep(st, r) ==
    LET a == r.start
        b == r.end
    IN  IF st.lo >= a /\ st.hi <= b
        THEN [st EXCEPT !.keep = FALSE, !.brk = TRUE]
        ELSE IF st.lo < a /\ st.hi > b
        THEN [st EXCEPT !.pushed = @ \cup {<<Add32(b, 1), st.hi>>},
                        !.hi = Sub32(a, 1)]
        ELSE IF st.hi >= a /\ st.hi <= b
        THEN [st EXCEPT !.hi = Sub32(a, 1)]
        ELSE IF st.lo >= a /\ st.lo <= b
        THEN [st EXCEPT !.lo = Add32(b, 1)]
        ELSE st

RECURSIVE Scan(_, _, _)
Scan(ranges, i, st) ==
    IF i > Len(ranges) \/ st.brk THEN st
    ELSE Scan(ranges, i + 1, ScanStep(st, ranges[i]))

\* The work-queue loop of add_range.  `rangeset.iter().next()` of a HashSet
\* yields any pending fragment, so the loop has one outcome per processing
\* order: the set of the vectors self.ranges can hold when the queue is empty.
\* One pass of the inner loop of add_range with the fragment f taken from
\* the queue: the vector and the queue after it.
AfterScan(ranges, rest, st, new) ==
    [ranges |-> IF st.keep /\ new.ok THEN Append(ranges, new.val) ELSE ranges,
     rangeset |-> rest \cup st.pushed]

ScanOf(ranges, f) ==
    Scan(ranges, 1, [lo |-> f[1], hi |-> f[2], keep |-> TRUE,
                     brk |-> FALSE, pushed |-> {}])

\* A pass that leaves the fragment it took in the queue.
TakeFragment_NoRemove(ranges, rangeset, f) ==
    AfterScan(ranges, rangeset, ScanOf(ranges, f),
              SimpleRange_new(ScanOf(ranges, f).lo, ScanOf(ranges, f).hi))

TakeFragment(ranges, rangeset, f) ==
    AfterScan(ranges, rangeset \ {f}, ScanOf(ranges, f),
              SimpleRange_new(ScanOf(ranges, f).lo, ScanOf(ranges, f).hi))

RECURSIVE Whittle(_, _)
Whittle(ranges, rangeset) ==
    IF rangeset = {} THEN {ranges}
    ELSE UNION { Whittle(t.ranges, t.rangeset)
                 : t \in { TakeFragment(ranges, rangeset, f)
                           : f \in rangeset } }

\* self.ranges.sort_unstable(): insertion into a sorted vector.
RECURSIVE InsertSorted(_, _)
InsertSorted(sorted, x) ==
    IF sorted = <<>> THEN <<x>>
    ELSE IF CmpSimpleRange(x, Head(sorted)) <= 0 THEN <<x>> \o sorted
    ELSE <<Head(sorted)>> \o InsertSorted(Tail(sorted), x)

\* The sort left out: the vector stays in insertion order.
SortRanges_None(ranges) == ranges

RECURSIVE SortRanges(_)
SortRanges(ranges) ==
    IF ranges = <<>> THEN <<>>
    ELSE InsertSorted(SortRanges(Tail(ranges)), Head(ranges))

\* The loop of condense_ranges over the sorted vector from index i on, with
\* its locals lo, hi and new_ranges; a Result<Vec<SimpleRange>>.
RECURSIVE CondenseLoop(_, _, _, _, _)
CondenseLoop(sorted, i, lo, hi, new_ranges) ==
    IF i > Len(sorted)
    THEN IF IsSome(hi)
         THEN LET range == SimpleRange_new(lo, hi[1])
              IN  IF range.ok THEN Ok(Append(new_ranges, range.val))
                  ELSE range
         ELSE Ok(new_ranges)
    ELSE LET r == sorted[i]
         IN  IF ~IsSome(hi)
             THEN CondenseLoop(sorted, i + 1, r.start, Some(r.end), new_ranges)
             ELSE IF hi[1] # Sub32(r.start, 1)
             THEN LET range == SimpleRange_new(lo, hi[1])
                  IN  IF range.ok
                      THEN CondenseLoop(sorted, i + 1, r.start, Some(r.end),
                                        Append(new_ranges, range.val))
                      ELSE range
             ELSE CondenseLoop(sorted, i + 1, lo, Some(r.end), new_ranges)

\* condense_ranges without the fusing of contiguous ranges.
condense_ranges_NoFuse(range) ==
    Ok([range EXCEPT !.ranges =
        LET sorted == SortRanges(range.ranges)
        IN  [i \in 1..Len(sorted) |-> SimpleRange_new(sorted[i].start,
                                                      sorted[i].end).val]])

\* condense_ranges: Result<()> and the Range after the call (on Err the
\* vector is sorted but not replaced).
condense_ranges(range) ==
    LET sorted == SortRanges(range.ranges)
        res == CondenseLoop(sorted, 1, 0, None, <<>>)
    IN  IF res.ok THEN Ok([range EXCEPT !.ranges = res.val])
        ELSE [res EXCEPT !.val = [range EXCEPT !.ranges = sorted]]

\* add_range that queues the first value of the candidate as a fragment of
\* its own next to the candidate and leaves out condense_ranges.
Range_add_range_SplitSeed(range, sr) ==
    { Ok([range EXCEPT !.ranges = w])
      : w \in Whittle(range.ranges, {<<sr.start, sr.start>>,
                                     <<sr.start, sr.end>>}) }

\* add_range that returns at once, without condense_ranges, when the scan
\* left the vector as it was.
Range_add_range_SkipRedundant(range, sr) ==
    { IF w = range.ranges THEN Ok(range)
      ELSE condense_ranges([range EXCEPT !.ranges = w])
      : w \in Whittle(range.ranges, {<<sr.start, sr.end>>}) }

\* add_range(&range): the set of its outcomes, each a Result whose val is
\* the Range after the call.
Range_add_range(range, sr) ==
    { condense_ranges([range EXCEPT !.ranges = w])
      : w \in Whittle(range.ranges, {<<sr.start, sr.end>>}) }

RECURSIVE SumLen(_)
SumLen(ranges) ==
    IF ranges = <<>> THEN 0
    ELSE SimpleRange_len(Head(ranges)) + SumLen(Tail(ranges))

Range_len(range) == SumLen(range.ranges)

\* A reset that leaves every cursor where it is.
Range_reset_Nothing(range) == range

\* A reset of the first range of the vector only.
Range_reset_FirstOnly(range) ==
    [range EXCEPT !.ranges =
        [i \in 1..Len(range.ranges) |->
            IF i = 1 THEN SimpleRange_reset(range.ranges[i])
            ELSE range.ranges[i]]]

Range_reset(range) ==
    [range EXCEPT !.ranges =
        [i \in 1..Len(range.ranges) |-> SimpleRange_reset(range.ranges[i])]]

\* merge(&other): add_range of each of other's ranges in order, stopping at
\* the first Err; the set of outcomes.
RECURSIVE MergeFrom(_, _, _)
MergeFrom(range, others, i) ==
    IF i > Len(others) THEN {Ok(range)}
    ELSE UNION { IF o.ok THEN MergeFrom(o.val, others, i + 1) ELSE {o}
                 : o \in Range_add_range(range, others[i]) }

Range_merge(range, other) == MergeFrom(range, other.ranges, 1)

\* next(): the first range of the vector that still has a value gives it.
RECURSIVE NextFrom(_, _)
NextFrom(range, i) ==
    IF i > Len(range.ranges) THEN [self |-> range, ret |-> None]
    ELSE LET n == SimpleRange_next(range.ranges[i])
         IN  IF IsSome(n.ret)
             THEN [self |-> [range EXCEPT !.ranges[i] = n.self,
                                          !.latest = n.ret],
                   ret |-> n.ret]
             ELSE NextFrom(range, i + 1)

\* next() that does not record the value it returns in `latest`.
Range_next_NoLatest(range) ==
    [NextFrom(range, 1) EXCEPT !.self.latest = range.latest]

Range_next(range) == NextFrom(range, 1)

(* ----------------------------- HostlistElem ---------------------------- *)

\* u32::to_string: the decimal digits, most significant first, as ASCII.
RECURSIVE to_string(_)
to_string(n) ==
    IF n < 10 THEN <<48 + n>>
    ELSE to_string(n \div 10) \o <<48 + (n % 10)>>

\* Component::Static(s) and Component::Range(r).
Static(s) == [kind |-> "Static", s |-> s, r |-> Range_new]

RangeC(r) == [kind |-> "Range", s |-> <<>>, r |-> r]

\* The tokens of one entry as the parser hands them over: a static_elem
\* with its text, or a range with its items, each item a pair <<start, end>>
\* (a lone number v is the pair <<v, v>>).
StaticTok(s) == [kind |-> "static_elem", s |-> s, items |-> <<>>]

RangeTok(items) == [kind |-> "range", s |-> <<>>, items |-> items]

\* The inner loop of HostlistElem::new over the items of one range token:
\* the set of outcomes, each a Result<Range>.
RECURSIVE BuildRange(_, _, _)
BuildRange(items, i, range) ==
    IF i > Len(items) THEN {Ok(range)}
    ELSE LET sr == SimpleRange_new(items[i][1], items[i][2])
         IN  IF ~sr.ok THEN {Err(sr.err)}
             ELSE UNION { IF o.ok THEN BuildRange(items, i + 1, o.val)
                          ELSE {Err(o.err)}
                          : o \in Range_add_range(range, sr.val) }

\* The outer loop of HostlistElem::new: Result<Vec<Component>> outcomes.
RECURSIVE BuildComponents(_, _, _)
BuildComponents(tokens, i, components) ==
    IF i > Len(tokens) THEN {Ok(components)}
    ELSE IF tokens[i].kind = "static_elem"
    THEN BuildComponents(tokens, i + 1,
                         Append(components, Static(tokens[i].s)))
    ELSE UNION { IF o.ok
                 THEN BuildComponents(tokens, i + 1,
                                      Append(components, RangeC(o.val)))
                 ELSE {o}
                 : o \in BuildRange(tokens[i].items, 1, Range_new) }

\* The loop of update_len: the checked product of the range lengths from
\* component i on, an Option<usize>.
RECURSIVE LenProduct(_, _, _)
LenProduct(components, i, len) ==
    IF i > Len(components) THEN Some(len)
    ELSE IF components[i].kind = "Range"
    THEN LET m == checked_mul(len, Range_len(components[i].r))
         IN  IF IsSome(m) THEN LenProduct(components, i + 1, m[1]) ELSE None
    ELSE LenProduct(components, i + 1, len)

\* The same loop with a wrapping multiplication.
RECURSIVE LenProductWrapping(_, _, _)
LenProductWrapping(components, i, len) ==
    IF i > Len(components) THEN Some(len)
    ELSE IF components[i].kind = "Range"
    THEN LenProductWrapping(components, i + 1,
            (len * Range_len(components[i].r)) % (USIZE_MAX + 1))
    ELSE LenProductWrapping(components, i + 1, len)

update_len_Wrapping(elem) ==
    IF IsSome(elem.latest)
    THEN [ok |-> FALSE, val |-> elem, err |-> <<"Internal">>]
    ELSE Ok([elem EXCEPT !.len =
                LenProductWrapping(elem.components, 1, 1)[1]])

\* update_len: Result<()> with, as val, the element after the call.
update_len(elem) ==
    IF IsSome(elem.latest)
    THEN [ok |-> FALSE, val |-> elem, err |-> <<"Internal">>]
    ELSE LET len == LenProduct(elem.components, 1, 1)
         IN  IF IsSome(len) THEN Ok([elem EXCEPT !.len = len[1]])
             ELSE [ok |-> FALSE, val |-> elem, err |-> <<"HostlistTooLarge">>]

\* HostlistElem::new: the set of outcomes, each a Result<HostlistElem>.
HostlistElem_new(tokens) ==
    { IF c.ok
      THEN LET u == update_len([components |-> c.val, latest |-> None,
                                len |-> 0])
           IN  IF u.ok THEN Ok(u.val) ELSE Err(u.err)
      ELSE c
      : c \in BuildComponents(tokens, 1, <<>>) }

HostlistElem_len(elem) == elem.len

\* The loop body of construct_next where a range that wrapped around sets
\* found_next, so that no carry reaches the ranges on its left.
WalkStep_NoCarry(components, i, found_next, host, c, n, n2) ==
    IF c.kind = "Static"
    THEN [components |-> components, found_next |-> found_next,
          host |-> c.s \o host, panic |-> FALSE]
    ELSE IF found_next
    THEN IF IsSome(c.r.latest)
         THEN [components |-> components, found_next |-> TRUE,
               host |-> to_string(c.r.latest[1]) \o host, panic |-> FALSE]
         ELSE IF IsSome(n.ret)
         THEN [components |-> [components EXCEPT ![i].r = n.self],
               found_next |-> TRUE,
               host |-> to_string(n.ret[1]) \o host, panic |-> FALSE]
         ELSE [components |-> components, found_next |-> found_next,
               host |-> host, panic |-> TRUE]
    ELSE IF IsSome(n.ret)
    THEN [components |-> [components EXCEPT ![i].r = n.self],
          found_next |-> TRUE,
          host |-> to_string(n.ret[1]) \o host, panic |-> FALSE]
    ELSE IF IsSome(n2.ret)
    THEN [components |-> [components EXCEPT ![i].r = n2.self],
          found_next |-> TRUE,
          host |-> to_string(n2.ret[1]) \o host, panic |-> FALSE]
    ELSE [components |-> components, found_next |-> found_next,
          host |-> host, panic |-> TRUE]

\* One component of the loop of construct_next: c is components[i], n the
\* outcome of c.r.next() and n2 that of c.r.reset() followed by c.r.next();
\* the record tells how the loop goes on (components, found_next, host) or
\* that one of the two `unwrap_or_else(|| panic!(..))` was reached.
WalkStep(components, i, found_next, host, c, n, n2) ==
    IF c.kind = "Static"
    THEN [components |-> components, found_next |-> found_next,
          host |-> c.s \o host, panic |-> FALSE]
    ELSE IF found_next
    THEN IF IsSome(c.r.latest)
         THEN [components |-> components, found_next |-> TRUE,
               host |-> to_string(c.r.latest[1]) \o host, panic |-> FALSE]
         ELSE IF IsSome(n.ret)
         THEN [components |-> [components EXCEPT ![i].r = n.self],
               found_next |-> TRUE,
               host |-> to_string(n.ret[1]) \o host, panic |-> FALSE]
         ELSE [components |-> components, found_next |-> found_next,
               host |-> host, panic |-> TRUE]
    ELSE IF IsSome(n.ret)
    THEN [components |-> [components EXCEPT ![i].r = n.self],
          found_next |-> TRUE,
          host |-> to_string(n.ret[1]) \o host, panic |-> FALSE]
    ELSE IF IsSome(n2.ret)
    THEN [components |-> [components EXCEPT ![i].r = n2.self],
          found_next |-> FALSE,
          host |-> to_string(n2.ret[1]) \o host, panic |-> FALSE]
    ELSE [components |-> components, found_next |-> found_next,
          host |-> host, panic |-> TRUE]

\* The loop of construct_next over the components in reverse, from index i
\* down to 1: st.found_next is the flag of the source, st.host the
\* concatenation of the parts built so far (host_parts reversed), st.panic
\* whether the loop was left by a panic.
RECURSIVE WalkRev(_, _)
WalkRev(st, i) ==
    IF i = 0 \/ st.panic THEN st
    ELSE WalkRev(WalkStep(st.components, i, st.found_next, st.host,
                          st.components[i],
                          Range_next(st.components[i].r),
                          Range_next(Range_reset(st.components[i].r))),
                 i - 1)

\* The state of the loop of construct_next before its first iteration.
WalkStart(elem) ==
    [components |-> elem.components, found_next |-> FALSE, host |-> <<>>,
     panic |-> FALSE]

\* The end of construct_next without `self.len -= 1`.
WalkEnd_NoDecrement(elem, w) ==
    [self |-> [elem EXCEPT !.components = w.components],
     ret |-> IF w.panic THEN None ELSE Some(w.host),
     panic |-> w.panic]

\* The end of construct_next with a wrapping `self.len -= 1`.
WalkEnd_Wrapping(elem, w) ==
    [self |-> [elem EXCEPT !.components = w.components,
                           !.len = (@ + USIZE_MAX) % (USIZE_MAX + 1)],
     ret |-> IF w.panic THEN None ELSE Some(w.host),
     panic |-> w.panic]

\* The end of construct_next after the loop left the state w: `self.len -= 1`
\* and the joined host, or the panic.
WalkEnd(elem, w) ==
    IF w.panic
    THEN [self |-> [elem EXCEPT !.components = w.components],
          ret |-> None, panic |-> TRUE]
    ELSE [self |-> [elem EXCEPT !.components = w.components, !.len = @ - 1],
          ret |-> Some(w.host), panic |-> FALSE]

\* construct_next without `self.len -= 1`.
construct_next_NoDecrement(elem) ==
    IF elem.len = 0
    THEN [self |-> elem, ret |-> None, panic |-> FALSE]
    ELSE WalkEnd_NoDecrement(elem,
            WalkRev(WalkStart(elem), Len(elem.components)))

\* construct_next without the early return at `self.len == 0`.
construct_next_NoGuard(elem) ==
    WalkEnd_Wrapping(elem, WalkRev(WalkStart(elem), Len(elem.components)))

\* construct_next: the element after the call, the returned Option<String>
\* and whether the call panicked.
construct_next(elem) ==
    IF elem.len = 0
    THEN [self |-> elem, ret |-> None, panic |-> FALSE]
    ELSE WalkEnd(elem, WalkRev(WalkStart(elem), Len(elem.components)))

\* `self.latest = next` of HostlistElem::next on the outcome n of
\* construct_next.
SetLatest(n) ==
    IF n.panic THEN n ELSE [n EXCEPT !.self.latest = n.ret]

\* Iterator for HostlistElem::next.
HostlistElem_next(elem) == SetLatest(construct_next(elem))

\* A fingerprint that leaves the literal text out.
fingerprint_NoText(elem) ==
    [i \in 1..Len(elem.components) |->
        IF elem.components[i].kind = "Static"
        THEN [kind |-> "Static", s |-> <<>>]
        ELSE [kind |-> "RangePlaceholder", s |-> <<>>]]

\* HostlistElem::fingerprint: the literal text or a placeholder per
\* component.
fingerprint(elem) ==
    [i \in 1..Len(elem.components) |->
        IF elem.components[i].kind = "Static"
        THEN [kind |-> "Static", s |-> elem.components[i].s]
        ELSE [kind |-> "RangePlaceholder", s |-> <<>>]]

\* count_ranges that counts at most one placeholder.
count_ranges_AtMostOne(fp) ==
    IF \E i \in 1..Len(fp) : fp[i].kind = "RangePlaceholder" THEN 1 ELSE 0

\* Fingerprint::count_ranges.
count_ranges(fp) ==
    Cardinality({ i \in 1..Len(fp) : fp[i].kind = "RangePlaceholder" })

\* #[derive(Ord)] on Range: the vector of ranges, then latest.
RECURSIVE CmpRanges(_, _)
CmpRanges(xs, ys) ==
    IF xs = <<>> /\ ys = <<>> THEN 0
    ELSE IF xs = <<>> THEN -1
    ELSE IF ys = <<>> THEN 1
    ELSE IF CmpSimpleRange(Head(xs), Head(ys)) # 0
    THEN CmpSimpleRange(Head(xs), Head(ys))
    ELSE CmpRanges(Tail(xs), Tail(ys))

CmpRange(x, y) ==
    IF CmpRanges(x.ranges, y.ranges) # 0 THEN CmpRanges(x.ranges, y.ranges)
    ELSE CmpSeq(x.latest, y.latest)

\* #[derive(Ord)] on Component: Static before Range, then the payload.
CmpComponent(x, y) ==
    IF x.kind # y.kind THEN (IF x.kind = "Static" THEN -1 ELSE 1)
    ELSE IF x.kind = "Static" THEN CmpSeq(x.s, y.s)
    ELSE CmpRange(x.r, y.r)

RECURSIVE CmpComponents(_, _)
CmpComponents(xs, ys) ==
    IF xs = <<>> /\ ys = <<>> THEN 0
    ELSE IF xs = <<>> THEN -1
    ELSE IF ys = <<>> THEN 1
    ELSE IF CmpComponent(Head(xs), Head(ys)) # 0
    THEN CmpComponent(Head(xs), Head(ys))
    ELSE CmpComponents(Tail(xs), Tail(ys))

\* Ord on Option<String>.
CmpOptString(x, y) ==
    IF x = <<>> /\ y = <<>> THEN 0
    ELSE IF x = <<>> THEN -1
    ELSE IF y = <<>> THEN 1
    ELSE CmpSeq(x[1], y[1])

\* #[derive(Ord)] on HostlistElem: components, then latest, then len.
CmpElem(x, y) ==
    IF CmpComponents(x.components, y.components) # 0
    THEN CmpComponents(x.components, y.components)
    ELSE IF CmpOptString(x.latest, y.latest) # 0
    THEN CmpOptString(x.latest, y.latest)
    ELSE CmpInt(x.len, y.len)

(* ------------------------------- Hostlist ------------------------------ *)

\* hostlist_elems_by_fingerprint.entry(fp).or_insert_with(Vec::new).push(e):
\* the map is a sequence of [fp, elems] in order of first insertion.
AddToGroup(groups, e) ==
    LET fp == fingerprint(e)
        at == { i \in 1..Len(groups) : groups[i].fp = fp }
    IN  IF at = {} THEN Append(groups, [fp |-> fp, elems |-> <<e>>])
        ELSE LET i == CHOOSE j \in at : TRUE
             IN  [groups EXCEPT ![i].elems = Append(@, e)]

\* The first loop of Hostlist::new: the outcomes, each a Result of the map.
RECURSIVE BuildGroups(_, _, _)
BuildGroups(expr, i, groups) ==
    IF i > Len(expr) THEN {Ok(groups)}
    ELSE UNION { IF e.ok
                 THEN BuildGroups(expr, i + 1, AddToGroup(groups, e.val))
                 ELSE {e}
                 : e \in HostlistElem_new(expr[i]) }

\* `for elem in elems_iter { range.merge(range_to_add)?; }`
RECURSIVE MergeElems(_, _, _, _)
MergeElems(range, elems, i, position) ==
    IF i > Len(elems) THEN {Ok(range)}
    ELSE UNION { IF o.ok THEN MergeElems(o.val, elems, i + 1, position)
                 ELSE {Err(o.err)}
                 : o \in Range_merge(range, elems[i].components[position].r) }

\* The combination without the merge: the first element stands for all.
CombineGroup_NoMerge(elems) == {Ok(elems[1])}

\* The combination of the elements of one fingerprint that has one range.
CombineGroup(elems) ==
    LET combined_elem == elems[1]
        position == CHOOSE i \in 1..Len(combined_elem.components) :
                        /\ combined_elem.components[i].kind = "Range"
                        /\ \A j \in 1..(i - 1) :
                              combined_elem.components[j].kind # "Range"
    IN  { IF m.ok
          THEN LET u == update_len([combined_elem EXCEPT
                                      !.components[position].r = m.val])
               IN  IF u.ok THEN Ok(u.val) ELSE Err(u.err)
          ELSE m
          : m \in MergeElems(combined_elem.components[position].r, elems, 2,
                             position) }

\* The second loop of Hostlist::new.  A HashMap is iterated in any order:
\* one outcome per order of the fingerprints still to visit.
RECURSIVE Combine(_, _, _)
Combine(groups, remaining, hostlist_elems) ==
    IF remaining = {} THEN {Ok(hostlist_elems)}
    ELSE UNION {
        IF count_ranges(groups[i].fp) # 1 \/ Len(groups[i].elems) = 1
        THEN Combine(groups, remaining \ {i},
                     hostlist_elems \o groups[i].elems)
        ELSE UNION { IF c.ok
                     THEN Combine(groups, remaining \ {i},
                                  Append(hostlist_elems, c.val))
                     ELSE {c}
                     : c \in CombineGroup(groups[i].elems) }
        : i \in remaining }

\* The overflow check left out.
RECURSIVE CheckedSum_Unchecked(_, _, _)
CheckedSum_Unchecked(hostlist_elems, i, len) ==
    IF i > Len(hostlist_elems) THEN Some(len)
    ELSE CheckedSum_Unchecked(hostlist_elems, i + 1,
            (len + HostlistElem_len(hostlist_elems[i])) % (USIZE_MAX + 1))

\* `len = len.checked_add(elem.len())` over the elements: Option<usize>.
RECURSIVE CheckedSum(_, _, _)
CheckedSum(hostlist_elems, i, len) ==
    IF i > Len(hostlist_elems) THEN Some(len)
    ELSE LET a == checked_add(len, HostlistElem_len(hostlist_elems[i]))
         IN  IF IsSome(a) THEN CheckedSum(hostlist_elems, i + 1, a[1])
             ELSE None

\* The sort left out: the elements stay in the order of the map's iteration.
SortElems_None(hostlist_elems) == hostlist_elems

\* hostlist_elems.sort_unstable().
RECURSIVE InsertElem(_, _)
InsertElem(sorted, x) ==
    IF sorted = <<>> THEN <<x>>
    ELSE IF CmpElem(x, Head(sorted)) <= 0 THEN <<x>> \o sorted
    ELSE <<Head(sorted)>> \o InsertElem(Tail(sorted), x)

RECURSIVE SortElems(_)
SortElems(hostlist_elems) ==
    IF hostlist_elems = <<>> THEN <<>>
    ELSE InsertElem(SortElems(Tail(hostlist_elems)), Head(hostlist_elems))

\* Hostlist::new on a parsed expression (a sequence of entries, each a
\* sequence of tokens): the set of outcomes, each a Result<Hostlist>.
Hostlist_new(expr) ==
    UNION { IF g.ok
            THEN { IF c.ok
                   THEN IF IsSome(CheckedSum(c.val, 1, 0))
                        THEN Ok([hostlist_elems |-> SortElems(c.val)])
                        ELSE Err(<<"HostlistTooLarge">>)
                   ELSE c
                   : c \in Combine(g.val, 1..Len(g.val), <<>>) }
            ELSE {g}
            : g \in BuildGroups(expr, 1, <<>>) }

\* is_empty that asks whether the vector of elements is empty.
Hostlist_is_empty_NoElems(h) == h.hostlist_elems = <<>>

\* Hostlist::is_empty: every element has length 0.
Hostlist_is_empty(h) ==
    \A i \in 1..Len(h.hostlist_elems) :
        HostlistElem_len(h.hostlist_elems[i]) = 0

\* Hostlist::len: the sum of the element lengths in usize arithmetic.
RECURSIVE SumElemLen(_)
SumElemLen(hostlist_elems) ==
    IF hostlist_elems = <<>> THEN 0
    ELSE (HostlistElem_len(Head(hostlist_elems))
          + SumElemLen(Tail(hostlist_elems))) % (USIZE_MAX + 1)

Hostlist_len(h) == SumElemLen(h.hostlist_elems)

\* A view whose ranges do not carry over the value they returned last.
Hostlist_iter_NoLatest(h) ==
    [hostlist_elems |->
        [i \in 1..Len(h.hostlist_elems) |->
            [h.hostlist_elems[i] EXCEPT !.components =
                [j \in 1..Len(@) |-> [@[j] EXCEPT !.r.latest = None]]]]]

\* Hostlist::iter: a clone of the elements.
Hostlist_iter(h) == [hostlist_elems |-> h.hostlist_elems]

\* IntoIterator for &Hostlist: a clone of the elements.
Hostlist_into_iter(h) == [hostlist_elems |-> h.hostlist_elems]

\* The closure of find_map applied to the element i of h, with n the
\* outcome of its next(): h after the call, the value the closure returned
\* and whether it panicked.
FindMapStep(h, i, n) ==
    [self |-> [h EXCEPT !.hostlist_elems[i] = n.self],
     ret |-> n.ret, panic |-> n.panic]

\* A find_map that goes on after the first Some: next() is called on every
\* element and the first name found is returned.
RECURSIVE FindMapNext_NoStop(_, _)
FindMapNext_NoStop(st, i) ==
    IF i > Len(st.self.hostlist_elems) \/ st.panic THEN st
    ELSE LET n == HostlistElem_next(st.self.hostlist_elems[i])
         IN  FindMapNext_NoStop(
                [self |-> [st.self EXCEPT !.hostlist_elems[i] = n.self],
                 ret |-> IF IsSome(st.ret) THEN st.ret ELSE n.ret,
                 panic |-> n.panic],
                i + 1)

\* find_map from the element i on, st being the outcome of the closure on
\* the element before it: it stops at the first Some.
RECURSIVE FindMapNext(_, _)
FindMapNext(st, i) ==
    IF i > Len(st.self.hostlist_elems) \/ st.panic \/ IsSome(st.ret) THEN st
    ELSE FindMapNext(FindMapStep(st.self, i,
                        HostlistElem_next(st.self.hostlist_elems[i])),
                     i + 1)

\* Iterator for Hostlist::next: find_map calls next() on each element in
\* order until one returns Some.
Hostlist_next(h) ==
    FindMapNext([self |-> h, ret |-> None, panic |-> FALSE], 1)

(* -------------------------------- lib.rs ------------------------------ *)

\* The characters '-', ',', '[' and ']'.
Hyphen == <<45>>

Comma == <<44>>

LBracket == <<91>>

RBracket == <<93>>

\* nums.sort_unstable(): insertion into a sorted vector.
RECURSIVE InsertNum(_, _)
InsertNum(sorted, x) ==
    IF sorted = <<>> THEN <<x>>
    ELSE IF x <= Head(sorted) THEN <<x>> \o sorted
    ELSE <<Head(sorted)>> \o InsertNum(Tail(sorted), x)

RECURSIVE SortNums(_)
SortNums(ns) ==
    IF ns = <<>> THEN <<>>
    ELSE InsertNum(SortNums(Tail(ns)), Head(ns))

\* The dedup left out.
dedup_None(ns) == ns

\* nums.dedup(): of each run of equal consecutive values the first is kept.
RECURSIVE dedup(_)
dedup(ns) ==
    IF Len(ns) <= 1 THEN ns
    ELSE IF ns[1] = ns[2] THEN dedup(Tail(ns))
    ELSE <<ns[1]>> \o dedup(Tail(ns))

\* One iteration of the loop of collapse_range on (i, num), i counted from
\* 0, with the locals st of the source.
CollapseStep(st, i, num) ==
    IF i = 0
    THEN [st EXCEPT !.collapsed = @ \o to_string(num), !.prev_num = num]
    ELSE IF num = Add32(st.prev_num, 1)
    THEN IF ~st.in_range
         THEN [st EXCEPT !.collapsed = @ \o Hyphen, !.in_range = TRUE,
                         !.needs_brackets = TRUE, !.prev_num = num]
         ELSE [st EXCEPT !.prev_num = num]
    ELSE [collapsed |->
              (IF st.in_range THEN st.collapsed \o to_string(st.prev_num)
               ELSE st.collapsed) \o Comma \o to_string(num),
          in_range |-> FALSE,
          needs_brackets |-> TRUE,
          prev_num |-> num]

\* The loop of collapse_range over the sorted, deduplicated vector from
\* index i (counted from 1) on.
RECURSIVE CollapseLoop(_, _, _)
CollapseLoop(ns, i, st) ==
    IF i > Len(ns) THEN st
    ELSE CollapseLoop(ns, i + 1, CollapseStep(st, i - 1, ns[i]))

\* `if in_range { collapsed += &prev_num.to_string(); }` after the loop.
CollapseClose(st) ==
    IF st.in_range THEN st.collapsed \o to_string(st.prev_num)
    ELSE st.collapsed

\* The end of collapse_range: the open range is closed and the text is put
\* in brackets if needs_brackets.
CollapseEnd(st) ==
    IF st.needs_brackets THEN LBracket \o CollapseClose(st) \o RBracket
    ELSE CollapseClose(st)

\* collapse_range: the text for a vector of numbers.
collapse_range(ns) ==
    CollapseEnd(CollapseLoop(dedup(SortNums(ns)), 1,
                             [collapsed |-> <<>>, in_range |-> FALSE,
                              needs_brackets |-> FALSE, prev_num |-> 0]))

\* Whether c is a decimal digit.
IsDigit(c) == c \in 48..57

\* Whether c may stand in a simple hostname: a letter, a digit, '-' or '.'.
IsHostChar(c) == c \in (97..122) \cup (65..90) \cup (48..57) \cup {45, 46}

\* The index at which the longest run of digits that ends the text starts
\* (Len(host) + 1 if the text does not end with a digit).
RECURSIVE SuffixStart(_, _)
SuffixStart(host, k) ==
    IF k > 1 /\ IsDigit(host[k - 1]) THEN SuffixStart(host, k - 1) ELSE k

\* HostlistParser::parse(Rule::simple_hostname, host): a prefix, which may
\* be empty, and the digits that end the name if there are any; a text
\* with another character is rejected.
ParseSimpleHostname(host) ==
    IF \E i \in 1..Len(host) : ~IsHostChar(host[i])
    THEN Err(<<"ParseError">>)
    ELSE Ok([prefix |-> Some(SubSeq(host, 1,
                                   SuffixStart(host, Len(host) + 1) - 1)),
             suffix |-> IF SuffixStart(host, Len(host) + 1) <= Len(host)
                        THEN Some(SubSeq(host,
                                         SuffixStart(host, Len(host) + 1),
                                         Len(host)))
                        ELSE None])

\* The number a text of digits denotes, as an unbounded integer.
RECURSIVE DigitsValue(_)
DigitsValue(digits) ==
    IF digits = <<>> THEN 0
    ELSE 10 * DigitsValue(SubSeq(digits, 1, Len(digits) - 1))
         + (digits[Len(digits)] - 48)

\* str::parse::<u32> on a text of digits.
parse_u32(digits) ==
    IF DigitsValue(digits) > U32_MAX THEN Err(<<"ParseIntError">>)
    ELSE Ok(DigitsValue(digits))

\* An insertion that replaces the suffixes the prefix had.
MapInsert_Overwrite(prefix_map, prefix, suffix) ==
    IF prefix \in DOMAIN prefix_map
    THEN [prefix_map EXCEPT ![prefix] = {suffix}]
    ELSE prefix_map @@ (prefix :> {suffix})

\* prefix_map.entry(prefix).or_default().insert(suffix).
MapInsert(prefix_map, prefix, suffix) ==
    IF prefix \in DOMAIN prefix_map
    THEN [prefix_map EXCEPT ![prefix] = @ \cup {suffix}]
    ELSE prefix_map @@ (prefix :> {suffix})

\* The body of the first loop without the test for the empty name.
CollapseHost_NoEmptyCheck(st, host, p) ==
    IF ~p.ok THEN Err(p.err)
    ELSE IF p.val.prefix = None THEN Err(<<"InvalidHostname", host>>)
    ELSE IF IsSome(p.val.suffix)
    THEN IF parse_u32(p.val.suffix[1]).ok
         THEN Ok([st EXCEPT !.prefix_map =
                     MapInsert(@, p.val.prefix[1],
                               parse_u32(p.val.suffix[1]).val)])
         ELSE Err(parse_u32(p.val.suffix[1]).err)
    ELSE Ok([st EXCEPT !.hostlist_elems = Append(@, p.val.prefix[1])])

\* The body of the first loop of collapse_hosts for the name host whose
\* parse gave p: the locals after it, or the error it returns.
CollapseHost(st, host, p) ==
    IF host = <<>> THEN Err(<<"InvalidHostname", host>>)
    ELSE IF ~p.ok THEN Err(p.err)
    ELSE IF p.val.prefix = None THEN Err(<<"InvalidHostname", host>>)
    ELSE IF IsSome(p.val.suffix)
    THEN IF parse_u32(p.val.suffix[1]).ok
         THEN Ok([st EXCEPT !.prefix_map =
                     MapInsert(@, p.val.prefix[1],
                               parse_u32(p.val.suffix[1]).val)])
         ELSE Err(parse_u32(p.val.suffix[1]).err)
    ELSE Ok([st EXCEPT !.hostlist_elems = Append(@, p.val.prefix[1])])

\* The first loop of collapse_hosts from the name i on; res is the Result
\* of the names before it.
RECURSIVE CollapseHostsLoop(_, _, _)
CollapseHostsLoop(hosts, i, res) ==
    IF i > Len(hosts) \/ ~res.ok THEN res
    ELSE CollapseHostsLoop(hosts, i + 1,
            CollapseHost(res.val, hosts[i], ParseSimpleHostname(hosts[i])))

\* The orders in which a HashMap or HashSet may hand out its members.
RECURSIVE Orders(_)
Orders(S) ==
    IF S = {} THEN {<<>>}
    ELSE UNION { { <<x>> \o o : o \in Orders(S \ {x}) } : x \in S }

\* The sort of the prefixes left out.
SortPrefixes_None(prefixes) == prefixes

\* sorted_prefixes.sort_unstable(): insertion into a sorted vector.
RECURSIVE InsertPrefix(_, _)
InsertPrefix(sorted, x) ==
    IF sorted = <<>> THEN <<x>>
    ELSE IF CmpSeq(x, Head(sorted)) <= 0 THEN <<x>> \o sorted
    ELSE <<Head(sorted)>> \o InsertPrefix(Tail(sorted), x)

RECURSIVE SortPrefixes(_)
SortPrefixes(prefixes) ==
    IF prefixes = <<>> THEN <<>>
    ELSE InsertPrefix(SortPrefixes(Tail(prefixes)), Head(prefixes))

\* The second loop of collapse_hosts from the prefix i on: the entries it
\* pushes, one outcome per order in which the sets hand out their numbers.
RECURSIVE PrefixEntries(_, _, _)
PrefixEntries(prefix_map, sorted_prefixes, i) ==
    IF i > Len(sorted_prefixes) THEN {<<>>}
    ELSE { <<sorted_prefixes[i] \o collapse_range(e[1])>> \o e[2]
           : e \in Orders(prefix_map[sorted_prefixes[i]])
                   \X PrefixEntries(prefix_map, sorted_prefixes, i + 1) }

\* hostlist_elems.join(",").
RECURSIVE JoinComma(_)
JoinComma(strs) ==
    IF strs = <<>> THEN <<>>
    ELSE IF Len(strs) = 1 THEN strs[1]
    ELSE strs[1] \o Comma \o JoinComma(Tail(strs))

\* The end of collapse_hosts after the first loop gave res.
CollapseHostsEnd(res) ==
    IF ~res.ok THEN {res}
    ELSE { Ok(JoinComma(res.val.hostlist_elems \o e))
           : e \in UNION { PrefixEntries(res.val.prefix_map,
                                         SortPrefixes(o), 1)
                           : o \in Orders(DOMAIN res.val.prefix_map) } }

\* collapse_hosts: the set of outcomes, each a Result<String>.
collapse_hosts(hosts) ==
    CollapseHostsEnd(
        CollapseHostsLoop(hosts, 1,
                          Ok([hostlist_elems |-> <<>>, prefix_map |-> <<>>])))

(* ------------------------------- Display ------------------------------- *)

\* The text of a SimpleRange inside a bracket group: the value of a range
\* of one value, start-end otherwise.
SimpleRange_to_string(sr) ==
    IF sr.start = sr.end THEN to_string(sr.start)
    ELSE to_string(sr.start) \o Hyphen \o to_string(sr.end)

\* The texts of the ranges of a Range, in order.
RangeTexts(ranges) ==
    [i \in 1..Len(ranges) |-> SimpleRange_to_string(ranges[i])]

\* A Range written without the brackets around it.
Range_to_string_Bare(r) == JoinComma(RangeTexts(r.ranges))

\* Display for Range: the texts of its ranges joined by "," in brackets.
Range_to_string(r) == LBracket \o JoinComma(RangeTexts(r.ranges)) \o RBracket

\* Display for Component: the text, or the Range.
Component_to_string(c) ==
    IF c.kind = "Static" THEN c.s ELSE Range_to_string(c.r)

\* collect::<String>() of the texts of the components from the i-th on.
RECURSIVE ConcatComponents(_, _)
ConcatComponents(components, i) ==
    IF i > Len(components) THEN <<>>
    ELSE Component_to_string(components[i])
         \o ConcatComponents(components, i + 1)

\* Display for HostlistElem.
HostlistElem_to_string(elem) == ConcatComponents(elem.components, 1)

\* Display for Hostlist: the texts of the elements joined by ",".
Hostlist_to_string(h) ==
    JoinComma([i \in 1..Len(h.hostlist_elems) |->
                  HostlistElem_to_string(h.hostlist_elems[i])])

(* ------------------------ the expression grammar ----------------------- *)

Space == 32

\* The index of the first "," outside brackets at or after i, Len(t) + 1 if
\* there is none; d is the number of brackets open at i.
RECURSIVE EntryEnd(_, _, _)
EntryEnd(t, i, d) ==
    IF i > Len(t) THEN i
    ELSE IF t[i] = Comma[1] /\ d = 0 THEN i
    ELSE EntryEnd(t, i + 1,
                  IF t[i] = LBracket[1] THEN d + 1
                  ELSE IF t[i] = RBracket[1] /\ d > 0 THEN d - 1 ELSE d)

\* The index of the first character at or after i that is no whitespace.
RECURSIVE SkipSpaces(_, _)
SkipSpaces(t, i) ==
    IF i <= Len(t) /\ t[i] = Space THEN SkipSpaces(t, i + 1) ELSE i

\* The index at which the run that starts at i ends: a run of digits
\* (digits = TRUE) or of the characters of literal text.
RECURSIVE RunEndAt(_, _, _)
RunEndAt(s, i, digits) ==
    IF i <= Len(s) /\ (IF digits THEN IsDigit(s[i]) ELSE IsHostChar(s[i]))
    THEN RunEndAt(s, i + 1, digits) ELSE i

\* One item of a bracket group, a decimal integer or start-end, as the
\* pair of its bounds.
ParseItem(item) ==
    LET e1 == RunEndAt(item, 1, TRUE)
        lo == parse_u32(SubSeq(item, 1, e1 - 1))
        hi == parse_u32(SubSeq(item, e1 + 1, Len(item)))
    IN  IF e1 = 1 THEN Err(<<"ParseError">>)
        ELSE IF e1 > Len(item)
        THEN IF lo.ok THEN Ok(<<lo.val, lo.val>>) ELSE lo
        ELSE IF item[e1] # Hyphen[1] \/ e1 = Len(item)
                \/ RunEndAt(item, e1 + 1, TRUE) <= Len(item)
        THEN Err(<<"ParseError">>)
        ELSE IF ~lo.ok THEN lo
        ELSE IF ~hi.ok THEN hi
        ELSE Ok(<<lo.val, hi.val>>)

\* The items between the brackets of a group, from index i on.
RECURSIVE ParseItems(_, _)
ParseItemsRest(g, e, item, rest) ==
    IF ~item.ok THEN item
    ELSE IF e > Len(g) THEN Ok(<<item.val>>)
    ELSE IF ~rest.ok THEN rest
    ELSE Ok(<<item.val>> \o rest.val)

ParseItems(g, i) ==
    ParseItemsRest(g, EntryEnd(g, i, 0),
                   ParseItem(SubSeq(g, i, EntryEnd(g, i, 0) - 1)),
                   IF EntryEnd(g, i, 0) > Len(g) THEN Ok(<<>>)
                   ELSE ParseItems(g, EntryEnd(g, i, 0) + 1))

\* The index of the "]" that closes the group opened before i, 0 if another
\* "[" or the end of the text comes first.
RECURSIVE GroupClose(_, _)
GroupClose(s, i) ==
    IF i > Len(s) \/ s[i] = LBracket[1] THEN 0
    ELSE IF s[i] = RBracket[1] THEN i
    ELSE GroupClose(s, i + 1)

\* The tokens of an entry from index i on: runs of literal text and
\* bracket groups.
RECURSIVE ParseTokens(_, _)
ParseTokensRest(tok, rest) ==
    IF ~tok.ok THEN tok
    ELSE IF ~rest.ok THEN rest
    ELSE Ok(<<tok.val>> \o rest.val)

ParseGroup(s, i, close) ==
    IF close = 0 THEN Err(<<"ParseError">>)
    ELSE ParseTokensRest(
             (LET items == ParseItems(SubSeq(s, i + 1, close - 1), 1)
              IN  IF items.ok THEN Ok(RangeTok(items.val)) ELSE items),
             ParseTokens(s, close + 1))

ParseTokens(s, i) ==
    IF i > Len(s) THEN Ok(<<>>)
    ELSE IF s[i] = LBracket[1] THEN ParseGroup(s, i, GroupClose(s, i + 1))
    ELSE IF IsHostChar(s[i])
    THEN ParseTokensRest(
             Ok(StaticTok(SubSeq(s, i, RunEndAt(s, i, FALSE) - 1))),
             ParseTokens(s, RunEndAt(s, i, FALSE)))
    ELSE Err(<<"ParseError">>)

\* One entry: at least one token.
ParseEntry(s) == IF s = <<>> THEN Err(<<"ParseError">>) ELSE ParseTokens(s, 1)

\* The entries of an expression from index i on, separated by "," with the
\* whitespace after it skipped.
RECURSIVE ParseEntries(_, _)
ParseEntriesRest(t, e, entry, rest) ==
    IF ~entry.ok THEN entry
    ELSE IF e > Len(t) THEN Ok(<<entry.val>>)
    ELSE IF ~rest.ok THEN rest
    ELSE Ok(<<entry.val>> \o rest.val)

ParseEntries(t, i) ==
    ParseEntriesRest(t, EntryEnd(t, i, 0),
                     ParseEntry(SubSeq(t, i, EntryEnd(t, i, 0) - 1)),
                     IF EntryEnd(t, i, 0) > Len(t) THEN Ok(<<>>)
                     ELSE ParseEntries(t, SkipSpaces(t, EntryEnd(t, i, 0) + 1)))

\* HostlistParser::parse(Rule::hostlist, expr): the entries of the text,
\* each a sequence of tokens; the empty text has no entries.
ParseHostlist(t) == IF t = <<>> THEN Ok(<<>>) ELSE ParseEntries(t, 1)

\* Hostlist::new on the text of an expression: the set of outcomes.
Hostlist_new_str(t) ==
    IF ParseHostlist(t).ok THEN Hostlist_new(ParseHostlist(t).val)
    ELSE {ParseHostlist(t)}

(* ------------------------------- state --------------------------------- *)

VARIABLES
    \* a SimpleRange under test
    sr_args,        \* the arguments <<start, end>> given to SimpleRange::new
    simplerange,    \* the Result of SimpleRange::new; val is the live range
    sr_ret,         \* the last operation, what it returned and the cursor
                    \* of the range before it
    sr_view,        \* the SimpleRangeIter taken last, if any
    sr_view_out,    \* the values that view has returned so far, in order
    \* a Range under test
    range,          \* the Range
    covered,        \* the integers of every interval given to it so far
    range_ret,      \* the last operation, its Result, what it returned, and
                    \* whether its intervals overlapped the ones given before
    \* one call of add_range, step by step
    ar_range,       \* the Range add_range is called on, as it was at the call
    ar_cand,        \* the candidate <<start, end>> given to add_range
    ar_ranges,      \* self.ranges during the call
    ar_queue,       \* the work queue `rangeset` of the call
    ar_pc,          \* where the call is: "idle", "loop" or "done"
    \* a HostlistElem under test
    elem_in,        \* the tokens given to HostlistElem::new
    elem,           \* the Result of HostlistElem::new; val is the live element
    elem_out,       \* the names next() has returned so far, in order
    elem_ret,       \* the last operation, what it returned, whether it panicked
    elem_upd,       \* the Result of the latest call of update_len
    elem_calls,     \* how many calls of update_len and Range::reset were made
    \* a Hostlist
    expr,           \* the parsed expression given to Hostlist::new
    hostlist,       \* the Result of Hostlist::new; val is the live Hostlist
    len0,           \* what len() returned right after construction
    out,            \* the names next() has returned so far, in order
    ret,            \* the last operation, what it returned, whether it panicked
    nones,          \* how often next() has returned None (counted to MaxNones)
    view,           \* the view of the Hostlist taken last, if any
    view_out,       \* the names that view has returned so far, in order
    view_at,        \* how many names the owner had returned when it was taken
    \* the functions of lib.rs
    nums,           \* the numbers given to collapse_range
    cr,             \* what collapse_range returned, once it was called
    hosts,          \* the names given to collapse_hosts
    ch,             \* the Result collapse_hosts returned, once it was called
    text,           \* what to_string() of the Hostlist returned, once called
    expanded,       \* what expand_hostlist returned, once it was called
    reparsed        \* the Result of Hostlist::new on that text, once called

srVars == <<sr_args, simplerange, sr_ret, sr_view, sr_view_out>>

arVars == <<ar_range, ar_cand, ar_ranges, ar_queue, ar_pc>>

rangeVars == <<range, covered, range_ret, arVars>>

elemVars == <<elem_in, elem, elem_out, elem_ret, elem_upd, elem_calls>>

viewVars == <<view, view_out, view_at>>

hlVars == <<expr, hostlist, len0, out, ret, nones, viewVars>>

crVars == <<nums, cr>>

chVars == <<hosts, ch>>

rtVars == <<text, expanded, reparsed>>

libVars == <<crVars, chVars, rtVars>>

vars == <<srVars, rangeVars, elemVars, hlVars, libVars>>

\* The values of the variables of a component a specification does not use.
srIdle ==
    /\ sr_args = <<0, 0>>
    /\ simplerange = Err(<<>>)
    /\ sr_ret = [op |-> "idle", ret |-> None, before |-> None]
    /\ sr_view = None
    /\ sr_view_out = <<>>

arIdle ==
    /\ ar_range = Range_new
    /\ ar_cand = <<0, 0>>
    /\ ar_ranges = <<>>
    /\ ar_queue = {}
    /\ ar_pc = "idle"

rangeIdle ==
    /\ range = Range_new
    /\ covered = {}
    /\ range_ret = [op |-> "idle", ok |-> TRUE, ret |-> None,
                    overlap |-> FALSE]
    /\ arIdle

elemIdle ==
    /\ elem_in = <<>>
    /\ elem = Err(<<>>)
    /\ elem_out = <<>>
    /\ elem_ret = [op |-> "idle", ret |-> None, panic |-> FALSE]
    /\ elem_upd = Ok(<<>>)
    /\ elem_calls = 0

viewIdle ==
    /\ view = None
    /\ view_out = <<>>
    /\ view_at = 0

hlIdle ==
    /\ expr = <<>>
    /\ hostlist = Err(<<>>)
    /\ len0 = 0
    /\ out = <<>>
    /\ ret = [op |-> "idle", ret |-> None, panic |-> FALSE]
    /\ nones = 0
    /\ viewIdle

crIdle ==
    /\ nums = <<>>
    /\ cr = None

chIdle ==
    /\ hosts = <<>>
    /\ ch = None

rtIdle ==
    /\ text = None
    /\ expanded = None
    /\ reparsed = None

libIdle == crIdle /\ chIdle /\ rtIdle

(* ------------------- specification of one SimpleRange ------------------ *)

SRInit ==
    /\ \E start \in U32, end \in U32 :
          /\ sr_args = <<start, end>>
          /\ simplerange = SimpleRange_new(start, end)
    /\ sr_ret = [op |-> "new", ret |-> None, before |-> None]
    /\ sr_view = None
    /\ sr_view_out = <<>>
    /\ rangeIdle
    /\ elemIdle
    /\ hlIdle
    /\ libIdle

SRNext ==
    /\ simplerange.ok
    /\ \E n \in {SimpleRange_next(simplerange.val)} :
          /\ simplerange' = [simplerange EXCEPT !.val = n.self]
          /\ sr_ret' = [op |-> "next", ret |-> n.ret,
                        before |-> simplerange.val.current]
    /\ UNCHANGED <<sr_args, sr_view, sr_view_out, rangeVars, elemVars, hlVars, libVars>>

SRReset ==
    /\ simplerange.ok
    /\ simplerange' = [simplerange EXCEPT !.val = SimpleRange_reset(@)]
    /\ sr_ret' = [op |-> "reset", ret |-> None,
                  before |-> simplerange.val.current]
    /\ UNCHANGED <<sr_args, sr_view, sr_view_out, rangeVars, elemVars, hlVars, libVars>>

SRLen ==
    /\ simplerange.ok
    /\ sr_ret' = [op |-> "len", ret |-> Some(SimpleRange_len(simplerange.val)),
                  before |-> simplerange.val.current]
    /\ UNCHANGED <<sr_args, simplerange, sr_view, sr_view_out, rangeVars,
                   elemVars, hlVars, libVars>>

\* range.iter() or (&range).into_iter(): a new view replaces the last one.
SRIter ==
    /\ simplerange.ok
    /\ \E it \in {SimpleRange_iter(simplerange.val),
                   SimpleRange_into_iter(simplerange.val)} :
          sr_view' = Some(it)
    /\ sr_view_out' = <<>>
    /\ sr_ret' = [op |-> "iter", ret |-> None,
                  before |-> simplerange.val.current]
    /\ UNCHANGED <<sr_args, simplerange, rangeVars, elemVars, hlVars, libVars>>

\* next() on the view.
SRViewNext ==
    /\ simplerange.ok
    /\ IsSome(sr_view)
    /\ \E n \in {SimpleRangeIter_next(sr_view[1])} :
          /\ sr_view' = Some(n.self)
          /\ sr_view_out' = IF IsSome(n.ret) THEN Append(sr_view_out, n.ret[1])
                            ELSE sr_view_out
          /\ sr_ret' = [op |-> "view_next", ret |-> n.ret,
                        before |-> simplerange.val.current]
    /\ UNCHANGED <<sr_args, simplerange, rangeVars, elemVars, hlVars, libVars>>

SpecSimpleRange ==
    SRInit /\ [][SRNext \/ SRReset \/ SRLen \/ SRIter \/ SRViewNext]_vars

\* C10: SimpleRange::new(start, end) returns InvalidRangeReversed{start, end}
\* iff start > end (also when start or end is u32::MAX), otherwise
\* TooLarge(end) iff end = u32::MAX, otherwise a range with cursor
\* Some(start); a range that was built always has start <= end < u32::MAX.
C10_SimpleRangeNew ==
    LET start == sr_args[1]
        end == sr_args[2]
    IN  /\ sr_ret.op = "new" =>
            /\ (start > end) <=>
                  (~simplerange.ok /\
                   simplerange.err = <<"InvalidRangeReversed", start, end>>)
            /\ (start <= end /\ end = U32_MAX) <=>
                  (~simplerange.ok /\ simplerange.err = <<"TooLarge", end>>)
            /\ (start <= end /\ end # U32_MAX) <=> simplerange.ok
            /\ simplerange.ok =>
                  simplerange.val = [start |-> start, end |-> end,
                                     current |-> Some(start)]
        /\ simplerange.ok =>
            /\ simplerange.val.start <= simplerange.val.end
            /\ simplerange.val.end < U32_MAX

\* C10 witness: a reversed pair whose start is u32::MAX was rejected as
\* reversed, not as too large.
C10_Witness ==
    /\ sr_ret.op = "new"
    /\ sr_args[1] = U32_MAX
    /\ sr_args[2] < U32_MAX
    /\ ~simplerange.ok
    /\ simplerange.err = <<"InvalidRangeReversed", U32_MAX, sr_args[2]>>

\* C11: next() returns the cursor value and moves the cursor to value + 1,
\* or to exhausted when the value is end; an exhausted range returns None
\* and stays exhausted; len() is end - cursor + 1 while active and 0 once
\* exhausted; reset() puts the cursor back to start, so that len() is
\* end - start + 1 and the next value is start.
C11_Cursor ==
    simplerange.ok =>
        /\ simplerange.val.start = sr_args[1]
        /\ simplerange.val.end = sr_args[2]
        /\ sr_ret.op = "next" =>
              IF IsSome(sr_ret.before)
              THEN /\ sr_ret.ret = sr_ret.before
                   /\ simplerange.val.current =
                         IF sr_ret.before[1] = sr_args[2] THEN None
                         ELSE Some(sr_ret.before[1] + 1)
              ELSE /\ sr_ret.ret = None
                   /\ simplerange.val.current = None
        /\ SimpleRange_len(simplerange.val) =
              IF IsSome(simplerange.val.current)
              THEN sr_args[2] - simplerange.val.current[1] + 1 ELSE 0
        /\ sr_ret.op = "len" =>
              /\ simplerange.val.current = sr_ret.before
              /\ sr_ret.ret = Some(IF IsSome(sr_ret.before)
                                   THEN sr_args[2] - sr_ret.before[1] + 1
                                   ELSE 0)
        /\ sr_ret.op = "reset" =>
              /\ simplerange.val.current = Some(sr_args[1])
              /\ SimpleRange_len(simplerange.val) = sr_args[2] - sr_args[1] + 1
              /\ SimpleRange_next(simplerange.val).ret = Some(sr_args[1])

\* C11 witness: reset() was called on an exhausted range of several values.
C11_Witness ==
    /\ simplerange.ok
    /\ sr_ret.op = "reset"
    /\ sr_ret.before = None
    /\ sr_args[1] < sr_args[2]
    /\ SimpleRange_len(simplerange.val) = sr_args[2] - sr_args[1] + 1

\* The values a view gives until its next() returns None.
RECURSIVE DrainViewFrom(_)
DrainViewFrom(n) ==
    IF n.ret = None THEN <<>>
    ELSE <<n.ret[1]>> \o DrainViewFrom(SimpleRangeIter_next(n.self))

DrainView(it) == DrainViewFrom(SimpleRangeIter_next(it))

\* start, start + 1, .., end as a sequence.
Interval(start, end) == [k \in 1..(end - start + 1) |-> start + k - 1]

\* C16: a view of a range, whatever the position of the range's cursor when
\* it is taken and however often one is taken, yields start..=end in full;
\* its len() and size_hint() are the number of values it still yields; and
\* taking or advancing a view leaves the range's cursor and len() alone.
C16_View ==
    (simplerange.ok /\ IsSome(sr_view)) =>
        /\ sr_view_out \o DrainView(sr_view[1])
              = Interval(sr_args[1], sr_args[2])
        /\ SimpleRangeIter_len(sr_view[1]) = Len(DrainView(sr_view[1]))
        /\ SimpleRangeIter_size_hint(sr_view[1])
              = <<Len(DrainView(sr_view[1])), Some(Len(DrainView(sr_view[1])))>>
        /\ sr_ret.op = "iter" => DrainView(sr_view[1])
                                    = Interval(sr_args[1], sr_args[2])
        /\ sr_ret.op \in {"iter", "view_next"} =>
              simplerange.val.current = sr_ret.before

\* C16 witness: a view of a range whose cursor is exhausted was drained and gave all
\* the values of the range.
C16_Witness ==
    /\ simplerange.ok
    /\ IsSome(sr_view)
    /\ simplerange.val.current = None
    /\ sr_ret.op = "view_next"
    /\ sr_ret.ret = None
    /\ sr_args[1] < sr_args[2]
    /\ sr_view_out = Interval(sr_args[1], sr_args[2])

(* ---------------------- specification of one Range --------------------- *)

\* The interval bounds the range-set specification inserts: the low values
\* and the largest valid end.
RangeVals == (0..MaxVal) \cup {U32_MAX - 1}

\* The valid SimpleRanges over RangeVals (start <= end < u32::MAX).
Intervals ==
    { SimpleRange_new(p[1], p[2]).val :
        p \in { q \in RangeVals \X RangeVals : q[1] <= q[2] } }

\* The valid SimpleRanges over 0..MaxVal.
LowIntervals == { i \in Intervals : i.end <= MaxVal }

\* The range sets add_range builds from a fresh one in at most n calls with
\* intervals over 0..MaxVal.
RECURSIVE BuiltRanges(_)
BuiltRanges(n) ==
    IF n = 0 THEN {Range_new}
    ELSE LET prev == BuiltRanges(n - 1)
         IN  prev \cup
             { o.val : o \in { x \in UNION { Range_add_range(r, i)
                                  : r \in prev, i \in LowIntervals } : x.ok } }

\* The operands of merge.
Others == BuiltRanges(MaxOtherAdds) \ {Range_new}

RECURSIVE Span(_)
Span(ranges) ==
    IF ranges = <<>> THEN {}
    ELSE (Head(ranges).start .. Head(ranges).end) \cup Span(Tail(ranges))

RInit ==
    /\ range = Range_new
    /\ covered = {}
    /\ range_ret = [op |-> "new", ok |-> TRUE, ret |-> None,
                    overlap |-> FALSE]
    /\ arIdle
    /\ srIdle
    /\ elemIdle
    /\ hlIdle
    /\ libIdle

RAddRange ==
    /\ \E sr \in Intervals : \E o \in Range_add_range(range, sr) :
          /\ range' = o.val
          /\ covered' = covered \cup (sr.start .. sr.end)
          /\ range_ret' = [op |-> "add_range", ok |-> o.ok, ret |-> None,
                           overlap |-> (sr.start .. sr.end) \cap covered # {}]
    /\ UNCHANGED <<arVars, srVars, elemVars, hlVars, libVars>>

RMerge ==
    /\ \E other \in Others : \E o \in Range_merge(range, other) :
          /\ range' = o.val
          /\ covered' = covered \cup Span(other.ranges)
          /\ range_ret' = [op |-> "merge", ok |-> o.ok, ret |-> None,
                           overlap |-> Span(other.ranges) \cap covered # {}]
    /\ UNCHANGED <<arVars, srVars, elemVars, hlVars, libVars>>

RNext ==
    /\ LET n == Range_next(range)
       IN  /\ range' = n.self
           /\ range_ret' = [op |-> "next", ok |-> TRUE, ret |-> n.ret,
                            overlap |-> FALSE]
    /\ UNCHANGED <<covered, arVars, srVars, elemVars, hlVars, libVars>>

RReset ==
    /\ range' = Range_reset(range)
    /\ range_ret' = [op |-> "reset", ok |-> TRUE, ret |-> None,
                     overlap |-> FALSE]
    /\ UNCHANGED <<covered, arVars, srVars, elemVars, hlVars, libVars>>

SpecRange == RInit /\ [][RAddRange \/ RMerge \/ RNext \/ RReset]_vars

\* C3: after any sequence of add_range and merge calls with valid ranges the
\* stored intervals are sorted ascending by start, pairwise non-overlapping
\* and never contiguous: x.end + 1 < y.start for consecutive x, y.
C3_Condensed ==
    /\ \A i \in 1..Len(range.ranges) :
          range.ranges[i].start <= range.ranges[i].end
    /\ \A i \in 1..(Len(range.ranges) - 1) :
          range.ranges[i].end + 1 < range.ranges[i + 1].start

\* C3 witness: a merge whose intervals overlapped the stored ones left
\* several stored intervals.
C3_Witness ==
    /\ range_ret.op = "merge"
    /\ range_ret.overlap
    /\ Len(range.ranges) >= 2

\* C4: the integers covered by the stored intervals are the union of the
\* inserted intervals, and right after an insertion len() is the cardinality
\* of that union.
C4_UnionAndLen ==
    /\ Span(range.ranges) = covered
    /\ range_ret.op \in {"add_range", "merge"} =>
          Range_len(range) = Cardinality(covered)

\* C4 witness: an add_range whose interval overlapped earlier ones, after
\* which the set covers 0..u32::MAX-1 as one stored interval.
C4_Witness ==
    /\ range_ret.op = "add_range"
    /\ range_ret.overlap
    /\ covered = 0..(U32_MAX - 1)
    /\ Range_len(range) = U32_MAX

\* The interval bounds of a range set, in stored order.
Bounds(r) == [i \in 1..Len(r.ranges) |-> <<r.ranges[i].start, r.ranges[i].end>>]

\* C20: for the range set A of the state and every range set B, A.merge(B)
\* and B.merge(A) succeed and leave the same interval list, A.merge(A)
\* leaves A's interval list unchanged, and merging B into A a second time
\* changes nothing.
C20_MergeAlgebra ==
    /\ \A x \in Range_merge(range, range) :
          x.ok /\ Bounds(x.val) = Bounds(range)
    /\ \A B \in Others :
          \A x \in Range_merge(range, B) :
              /\ x.ok
              /\ \A y \in Range_merge(B, range) :
                    y.ok /\ Bounds(y.val) = Bounds(x.val)
              /\ \A z \in Range_merge(x.val, B) :
                    z.ok /\ Bounds(z.val) = Bounds(x.val)

\* C20 witness: a range set of two intervals A and a range set B that
\* overlaps it, fills its gap and extends it, so that A.merge(B) is a single
\* interval that is neither A nor B.
C20_Witness ==
    /\ Len(range.ranges) = 2
    /\ \E B \in Others : \E x \in Range_merge(range, B) :
          /\ Span(B.ranges) \cap Span(range.ranges) # {}
          /\ ~(Span(B.ranges) \subseteq Span(range.ranges))
          /\ ~(Span(range.ranges) \subseteq Span(B.ranges))
          /\ x.ok
          /\ Len(x.val.ranges) = 1
          /\ \A y \in Range_merge(B, range) : Bounds(y.val) = Bounds(x.val)

\* The elements of a finite set of integers in ascending order.
RECURSIVE Ascending(_)
Ascending(S) ==
    IF S = {} THEN <<>>
    ELSE LET m == CHOOSE x \in S : \A y \in S : x <= y
         IN  <<m>> \o Ascending(S \ {m})

\* The values a Range gives until its next() returns None.
RECURSIVE DrainRangeFrom(_)
DrainRangeFrom(n) ==
    IF n.ret = None THEN <<>>
    ELSE <<n.ret[1]>> \o DrainRangeFrom(Range_next(n.self))

DrainRange(r) == DrainRangeFrom(Range_next(r))

\* The sequence s is the end of the sequence t.
IsSuffix(s, t) ==
    Len(s) <= Len(t) /\ s = SubSeq(t, Len(t) - Len(s) + 1, Len(t))

\* What one call of next() on r, with the outcome n, has to do: give a
\* value, record it as latest and take one off len(), or give None and
\* change nothing when len() is 0.
OneRangeStep(r, n) ==
    IF Range_len(r) > 0
    THEN /\ IsSome(n.ret)
         /\ n.self.latest = n.ret
         /\ Range_len(n.self) = Range_len(r) - 1
    ELSE n.ret = None /\ n.self = r

\* C21: the values next() gives until None are the integers of the union
\* that were not given yet, each once in strictly increasing order (all of
\* them right after an insertion or a reset); after a returned value
\* latest() is that value and len() is one less; and reset() restores the
\* full sequence.
C21_DrainRange ==
    /\ IsSuffix(DrainRange(range), Ascending(covered))
    /\ (range_ret.op # "next" /\ range_ret.ok) =>
          DrainRange(range) = Ascending(covered)
    /\ (range_ret.op = "next" /\ IsSome(range_ret.ret)) =>
          /\ range.latest = range_ret.ret
          /\ range_ret.ret[1] \in covered
          /\ \A v \in covered :
                v > range_ret.ret[1] <=>
                    \E k \in 1..Len(DrainRange(range)) :
                        DrainRange(range)[k] = v
    /\ (range_ret.op = "next" /\ range_ret.ret = None) =>
          Range_len(range) = 0
    /\ OneRangeStep(range, Range_next(range))
    /\ Range_len(range) = Len(DrainRange(range))
    /\ DrainRange(Range_reset(range)) = Ascending(covered)

\* C21 witness: a range set of two intervals and at least three values was
\* drained: next() returned None and latest() is the largest value.
C21_Witness ==
    /\ range_ret.op = "next"
    /\ range_ret.ret = None
    /\ Len(range.ranges) = 2
    /\ Cardinality(covered) >= 3
    /\ range.latest = Some(U32_MAX - 1)

ElemGroups ==
    { << <<1, 2>> >>,
      << <<3, 3>>, <<0, 1>> >>,
      << <<2, 4>>, <<3, 5>> >>,
      << <<7, 7>> >>,
      << <<9, 10>> >>,
      << <<0, U32_MAX - 1>> >>,
      << <<3, 1>> >>,
      << <<0, U32_MAX>> >> }

\* "n", "s" and "m1".
Lit_n == <<110>>

Lit_s == <<115>>

Lit_m1 == <<109, 49>>

\* The entries of the element specification: n, n[..], n[..]s, n[..][..],
\* n[..]m1[..] and n[..][..][..].
ElemEntries ==
    {<<StaticTok(Lit_n)>>}
    \cup { <<StaticTok(Lit_n), RangeTok(g)>> : g \in ElemGroups }
    \cup { <<StaticTok(Lit_n), RangeTok(g), StaticTok(Lit_s)>>
           : g \in ElemGroups }
    \cup { <<StaticTok(Lit_n), RangeTok(g[1]), RangeTok(g[2])>>
           : g \in ElemGroups \X ElemGroups }
    \cup { <<StaticTok(Lit_n), RangeTok(g[1]), StaticTok(Lit_m1),
             RangeTok(g[2])>> : g \in ElemGroups \X ElemGroups }
    \cup { <<StaticTok(Lit_n), RangeTok(g[1]), RangeTok(g[2]),
             RangeTok(g[3])>> : g \in ElemGroups \X ElemGroups \X ElemGroups }

EInit ==
    /\ \E tokens \in ElemEntries : \E res \in HostlistElem_new(tokens) :
          /\ elem_in = tokens
          /\ elem = res
    /\ elem_out = <<>>
    /\ elem_ret = [op |-> "new", ret |-> None, panic |-> FALSE]
    /\ elem_upd = Ok(<<>>)
    /\ elem_calls = 0
    /\ srIdle
    /\ rangeIdle
    /\ hlIdle
    /\ libIdle

ENext ==
    /\ elem.ok
    /\ ~elem_ret.panic
    /\ \E n \in {HostlistElem_next(elem.val)} :
           /\ elem' = [elem EXCEPT !.val = n.self]
           /\ elem_out' = IF IsSome(n.ret) THEN Append(elem_out, n.ret[1])
                          ELSE elem_out
           /\ elem_ret' = [op |-> "next", ret |-> n.ret, panic |-> n.panic]
    /\ UNCHANGED <<elem_in, elem_upd, elem_calls, srVars, rangeVars, hlVars,
                   libVars>>

SpecElem == EInit /\ [][ENext]_vars

\* The integers one range token denotes: the union of its items.
GroupSet(items) == UNION { items[i][1] .. items[i][2] : i \in 1..Len(items) }

\* For each value of vs in order, every name of rest in order, prefixed by
\* the decimal text of the value.
RECURSIVE PrefixEach(_, _)
PrefixEach(vs, rest) ==
    IF vs = <<>> THEN <<>>
    ELSE [j \in 1..Len(rest) |-> to_string(Head(vs)) \o rest[j]]
         \o PrefixEach(Tail(vs), rest)

\* The names an entry denotes: one per tuple of the Cartesian product of its
\* range tokens' sets, in lexicographic order of the tuples (leftmost range
\* slowest), literal text at its position.
RECURSIVE ProductNames(_)
ProductNames(tokens) ==
    IF tokens = <<>> THEN << <<>> >>
    ELSE LET rest == ProductNames(Tail(tokens))
         IN  IF Head(tokens).kind = "static_elem"
             THEN [j \in 1..Len(rest) |-> Head(tokens).s \o rest[j]]
             ELSE PrefixEach(Ascending(GroupSet(Head(tokens).items)), rest)

RangeTokens(tokens) == { i \in 1..Len(tokens) : tokens[i].kind = "range" }

\* Every item of every range token is a pair SimpleRange::new accepts.
ValidTokens(tokens) ==
    \A i \in RangeTokens(tokens) : \A j \in 1..Len(tokens[i].items) :
        /\ tokens[i].items[j][1] <= tokens[i].items[j][2]
        /\ tokens[i].items[j][2] < U32_MAX

\* The product of the cardinalities of the range tokens' sets, as an
\* unbounded integer.
RECURSIVE Cardinal(_)
Cardinal(tokens) ==
    IF tokens = <<>> THEN 1
    ELSE (IF Head(tokens).kind = "range"
          THEN Cardinality(GroupSet(Head(tokens).items)) ELSE 1)
         * Cardinal(Tail(tokens))

\* C1: an element with at least one range component emits, in order, the
\* names of the Cartesian product of its range sets in lexicographic order
\* of the tuples (rightmost range fastest), one name per tuple, and has
\* emitted all of them when next() returns None.
C1_CartesianOrder ==
    (elem.ok /\ RangeTokens(elem_in) # {}) =>
        LET names == ProductNames(elem_in)
        IN  /\ Len(elem_out) <= Len(names)
            /\ elem_out = SubSeq(names, 1, Len(elem_out))
            /\ (elem_ret.op = "next" /\ ~elem_ret.panic /\ elem_ret.ret = None)
                  => elem_out = names

\* C1 witness: n[1-2]m1[3,0-1] was drained and gave n1m10, n1m11, n1m13,
\* n2m10, n2m11, n2m13.
C1_Witness ==
    /\ elem_in = <<StaticTok(Lit_n), RangeTok(<< <<1, 2>> >>),
                   StaticTok(Lit_m1), RangeTok(<< <<3, 3>>, <<0, 1>> >>)>>
    /\ elem_ret.op = "next"
    /\ elem_ret.ret = None
    /\ elem_out = << <<110, 49, 109, 49, 48>>, <<110, 49, 109, 49, 49>>,
                     <<110, 49, 109, 49, 51>>, <<110, 50, 109, 49, 48>>,
                     <<110, 50, 109, 49, 49>>, <<110, 50, 109, 49, 51>> >>

\* C8: an element's length at construction is the product of the lengths of
\* its range sets (1 without a range component); when the product exceeds
\* usize::MAX, construction fails with HostlistTooLarge, no element is
\* returned and no name is emitted.
C8_LenIsProduct ==
    /\ (elem_ret.op = "new" /\ ValidTokens(elem_in)) =>
          IF Cardinal(elem_in) <= USIZE_MAX
          THEN elem.ok /\ HostlistElem_len(elem.val) = Cardinal(elem_in)
          ELSE ~elem.ok /\ elem.err = <<"HostlistTooLarge">>
    /\ ~elem.ok => (elem.val = <<>> /\ elem_out = <<>>)

\* C8 witness: the construction of an element whose product exceeds
\* usize::MAX, though the product of its first two ranges fits, failed
\* with HostlistTooLarge.
C8_Witness ==
    /\ elem_ret.op = "new"
    /\ ValidTokens(elem_in)
    /\ Cardinal(elem_in) > USIZE_MAX
    /\ Cardinal(SubSeq(elem_in, 1, 3)) <= USIZE_MAX
    /\ ~elem.ok
    /\ elem.err = <<"HostlistTooLarge">>

(* ---------------------- specification of a Hostlist -------------------- *)

\* [0-(u32::MAX - 1)], the largest range set.
FullGroup == RangeTok(<< <<0, U32_MAX - 1>> >>)

\* The entries of the expressions: n, n[1-3,2-5], n[2-7], n[9-10], m1[1-2],
\* n[1-2]s, n[2-3]s, n[1-2]s[0-1], n[2-3]s[1], n[3-1].
HostEntries ==
    { <<StaticTok(Lit_n)>>,
      <<StaticTok(Lit_n), RangeTok(<< <<1, 3>>, <<2, 5>> >>)>>,
      <<StaticTok(Lit_n), RangeTok(<< <<2, 7>> >>)>>,
      <<StaticTok(Lit_n), RangeTok(<< <<9, 10>> >>)>>,
      <<StaticTok(Lit_m1), RangeTok(<< <<1, 2>> >>)>>,
      <<StaticTok(Lit_n), RangeTok(<< <<1, 2>> >>), StaticTok(Lit_s)>>,
      <<StaticTok(Lit_n), RangeTok(<< <<2, 3>> >>), StaticTok(Lit_s)>>,
      <<StaticTok(Lit_n), RangeTok(<< <<1, 2>> >>), StaticTok(Lit_s),
        RangeTok(<< <<0, 1>> >>)>>,
      <<StaticTok(Lit_n), RangeTok(<< <<2, 3>> >>), StaticTok(Lit_s),
        RangeTok(<< <<1, 1>> >>)>>,
      <<StaticTok(Lit_n), RangeTok(<< <<3, 1>> >>)>> }

\* n[F][F], m1[F][F] and n[F][F][F] for the largest range set F.
Big_n == <<StaticTok(Lit_n), FullGroup, FullGroup>>

Big_m1 == <<StaticTok(Lit_m1), FullGroup, FullGroup>>

Huge_n == <<StaticTok(Lit_n), FullGroup, FullGroup, FullGroup>>

\* The sequences of at most n entries of HostEntries.
RECURSIVE EntrySeqs(_)
EntrySeqs(n) ==
    IF n = 0 THEN {<<>>}
    ELSE LET prev == EntrySeqs(n - 1)
         IN  prev \cup { Append(e[1], e[2]) : e \in prev \X HostEntries }

\* The expressions: up to MaxEntries entries of HostEntries, and the
\* expressions with entries as long as the counter allows.
Exprs ==
    EntrySeqs(MaxEntries)
    \cup { <<Big_n>>, <<Big_n, Big_m1>>, <<Big_n, Big_n>>,
           <<Big_m1, <<StaticTok(Lit_n), RangeTok(<< <<2, 7>> >>)>> >>,
           <<<<StaticTok(Lit_n)>>, Huge_n>> }

Init ==
    /\ \E e \in Exprs : \E res \in Hostlist_new(e) :
          /\ expr = e
          /\ hostlist = res
          /\ len0 = IF res.ok THEN Hostlist_len(res.val) ELSE 0
    /\ out = <<>>
    /\ ret = [op |-> "new", ret |-> None, panic |-> FALSE]
    /\ nones = 0
    /\ viewIdle
    /\ srIdle
    /\ rangeIdle
    /\ elemIdle
    /\ libIdle

HNext ==
    /\ hostlist.ok
    /\ ~ret.panic
    /\ \E n \in {Hostlist_next(hostlist.val)} :
           /\ hostlist' = [hostlist EXCEPT !.val = n.self]
           /\ out' = IF IsSome(n.ret) THEN Append(out, n.ret[1]) ELSE out
           /\ ret' = [op |-> "next", ret |-> n.ret, panic |-> n.panic]
           /\ nones' = IF ~n.panic /\ n.ret = None /\ nones < MaxNones
                       THEN nones + 1 ELSE nones
    /\ UNCHANGED <<expr, len0, viewVars, srVars, rangeVars, elemVars, libVars>>

HLen ==
    /\ hostlist.ok
    /\ ~ret.panic
    /\ ret' = [op |-> "len", ret |-> Some(Hostlist_len(hostlist.val)),
               panic |-> FALSE]
    /\ UNCHANGED <<expr, hostlist, len0, out, nones, viewVars, srVars,
                   rangeVars, elemVars, libVars>>

HIsEmpty ==
    /\ hostlist.ok
    /\ ~ret.panic
    /\ ret' = [op |-> "is_empty", ret |-> Some(Hostlist_is_empty(hostlist.val)),
               panic |-> FALSE]
    /\ UNCHANGED <<expr, hostlist, len0, out, nones, viewVars, srVars,
                   rangeVars, elemVars, libVars>>

HIter ==
    /\ hostlist.ok
    /\ ~ret.panic
    /\ ret' = [op |-> "iter", ret |-> Some(Hostlist_iter(hostlist.val)),
               panic |-> FALSE]
    /\ UNCHANGED <<expr, hostlist, len0, out, nones, viewVars, srVars,
                   rangeVars, elemVars, libVars>>

Next == HNext \/ HLen \/ HIsEmpty \/ HIter

Spec == Init /\ [][Next]_vars

\* The fingerprint of an entry, read off its tokens: the literal text or a
\* placeholder per token.
EntryFp(tokens) ==
    [i \in 1..Len(tokens) |->
        IF tokens[i].kind = "static_elem"
        THEN [kind |-> "Static", s |-> tokens[i].s]
        ELSE [kind |-> "RangePlaceholder", s |-> <<>>]]

\* The entries of the expression e that share the fingerprint of entry i.
SameClass(e, i) == { j \in 1..Len(e) : EntryFp(e[j]) = EntryFp(e[i]) }

\* Entry i has exactly one range slot and shares its fingerprint with
\* another entry.
Mergeable(e, i) ==
    /\ Cardinality(RangeTokens(e[i])) = 1
    /\ Cardinality(SameClass(e, i)) >= 2

\* The position of the range slot of an entry that has exactly one.
RangeSlot(tokens) == CHOOSE i \in RangeTokens(tokens) : TRUE

\* The union of the range sets of the entries that share entry i's
\* fingerprint.
UnionOf(e, i) ==
    UNION { GroupSet(e[j][RangeSlot(e[j])].items) : j \in SameClass(e, i) }

\* Entry i with its range slot replaced by the values of S, one item each.
WithRangeSet(tokens, S) ==
    [tokens EXCEPT ![RangeSlot(tokens)] =
        RangeTok([k \in 1..Cardinality(S) |->
                    <<Ascending(S)[k], Ascending(S)[k]>>])]

\* The names a HostlistElem gives until its next() returns None.
RECURSIVE DrainElemFrom(_)
DrainElemFrom(n) ==
    IF n.panic \/ n.ret = None THEN <<>>
    ELSE <<n.ret[1]>> \o DrainElemFrom(HostlistElem_next(n.self))

DrainElem(el) == DrainElemFrom(HostlistElem_next(el))

\* The outcome n of one call of Hostlist::next as a drain of one call: the
\* list after it, the name it gave if any, and whether the drain is over.
OneCall(n) ==
    [self |-> n.self,
     names |-> IF ~n.panic /\ IsSome(n.ret) THEN <<n.ret[1]>> ELSE <<>>,
     done |-> n.panic \/ n.ret = None]

\* A drain that went on after `left` with `right`.
Join(left, right) ==
    [self |-> right.self, names |-> left.names \o right.names,
     done |-> right.done]

\* The drain of h by at most m calls of next(), stopping at the first None:
\* the first half of the calls, then the second half unless the first
\* ended the drain.
RECURSIVE DrainCalls(_, _)
RECURSIVE DrainOn(_, _)
DrainCalls(h, m) ==
    IF m = 1 THEN OneCall(Hostlist_next(h))
    ELSE DrainOn(DrainCalls(h, m \div 2), m - (m \div 2))

DrainOn(left, m) ==
    IF left.done THEN left ELSE Join(left, DrainCalls(left.self, m))

\* The names a Hostlist gives until its next() returns None; no list has
\* more than usize::MAX names.
Drain(h) == DrainCalls(h, USIZE_MAX + 1).names

\* The sum of the element lengths as an unbounded integer.
RECURSIVE TrueSum(_)
TrueSum(hostlist_elems) ==
    IF hostlist_elems = <<>> THEN 0
    ELSE HostlistElem_len(Head(hostlist_elems))
         + TrueSum(Tail(hostlist_elems))

\* The number of names entry i of e contributes after the merge, as an
\* unbounded integer: the cardinality of the union for the first entry of a
\* merged class, nothing for its other entries, the product of the entry's
\* range sets otherwise.
PostMergeLen(e, i) ==
    IF Mergeable(e, i)
    THEN IF \A j \in SameClass(e, i) : i <= j
         THEN Cardinality(UnionOf(e, i)) ELSE 0
    ELSE Cardinal(e[i])

RECURSIVE PostMergeSumFrom(_, _)
PostMergeSumFrom(e, i) ==
    IF i > Len(e) THEN 0
    ELSE PostMergeLen(e, i) + PostMergeSumFrom(e, i + 1)

PostMergeSum(e) == PostMergeSumFrom(e, 1)

\* The elements of h whose fingerprint is fp.
ElemsWithFp(h, fp) ==
    { k \in 1..Len(h.hostlist_elems) : fingerprint(h.hostlist_elems[k]) = fp }

\* C2: the entries of an expression that share a fingerprint with exactly
\* one range slot are replaced by a single element whose range set is the
\* union of their range sets, whose length is the cardinality of the union
\* and whose expansion lists every value of the union once, ascending.
C2_MergeByFingerprint ==
    (ret.op = "new" /\ hostlist.ok) =>
        \A i \in 1..Len(expr) : Mergeable(expr, i) =>
            /\ Cardinality(ElemsWithFp(hostlist.val, EntryFp(expr[i]))) = 1
            /\ \A k \in ElemsWithFp(hostlist.val, EntryFp(expr[i])) :
                  /\ Span(hostlist.val.hostlist_elems[k]
                            .components[RangeSlot(expr[i])].r.ranges)
                        = UnionOf(expr, i)
                  /\ HostlistElem_len(hostlist.val.hostlist_elems[k])
                        = Cardinality(UnionOf(expr, i))
                  /\ DrainElem(hostlist.val.hostlist_elems[k])
                        = ProductNames(WithRangeSet(expr[i], UnionOf(expr, i)))

\* C2 witness: n[1-3,2-5],n[2-7] was constructed as one element of length 7
\* that expands to n1 .. n7.
C2_Witness ==
    /\ ret.op = "new"
    /\ expr = << <<StaticTok(Lit_n), RangeTok(<< <<1, 3>>, <<2, 5>> >>)>>,
                 <<StaticTok(Lit_n), RangeTok(<< <<2, 7>> >>)>> >>
    /\ hostlist.ok
    /\ Len(hostlist.val.hostlist_elems) = 1
    /\ Hostlist_len(hostlist.val) = 7
    /\ Drain(hostlist.val)
          = << <<110, 49>>, <<110, 50>>, <<110, 51>>, <<110, 52>>,
               <<110, 53>>, <<110, 54>>, <<110, 55>> >>

\* C5: after N calls of next() that returned a name, len() is exactly
\* L - N for the length L at construction (so it never increases), and a
\* call of len() returns that number.
C5_LenIsRemaining ==
    hostlist.ok =>
        /\ Len(out) <= len0
        /\ Hostlist_len(hostlist.val) = len0 - Len(out)
        /\ ret.op = "len" => ret.ret = Some(len0 - Len(out))

\* C5 witness: len() was called after some names were pulled from a list of
\* several elements and before the last one.
C5_Witness ==
    /\ hostlist.ok
    /\ ret.op = "len"
    /\ Len(hostlist.val.hostlist_elems) >= 2
    /\ Len(out) >= 2
    /\ ret.ret = Some(len0 - Len(out))
    /\ len0 - Len(out) >= 2

\* C6: the names pulled so far followed by the names the rest gives when
\* drained, whatever len(), is_empty() or iter() calls came in between, are
\* the names a fresh construction of the same expression gives when drained.
C6_PauseResume ==
    hostlist.ok =>
        \A fresh \in Hostlist_new(expr) :
            /\ fresh.ok
            /\ out \o Drain(hostlist.val) = Drain(fresh.val)

\* C6 witness: a query was made after a pause in the middle of an element
\* with two range components, the right one part-way through its values.
C6_Witness ==
    /\ hostlist.ok
    /\ ret.op \in {"len", "is_empty", "iter"}
    /\ Len(out) >= 1
    /\ \E k \in 1..Len(hostlist.val.hostlist_elems) :
          /\ count_ranges(fingerprint(hostlist.val.hostlist_elems[k])) = 2
          /\ IsSome(hostlist.val.hostlist_elems[k].latest)
          /\ HostlistElem_len(hostlist.val.hostlist_elems[k]) > 0
          /\ HostlistElem_len(hostlist.val.hostlist_elems[k]) % 2 = 1

\* C7: next() returns exactly L names and then None; once it has returned
\* None every later call returns None, len() stays 0 and no call panics.
C7_Fused ==
    hostlist.ok =>
        /\ ~ret.panic
        /\ Len(out) <= len0
        /\ (ret.op = "next" /\ ret.ret = None) => Len(out) = len0
        /\ nones >= 1 =>
              /\ Len(out) = len0
              /\ Hostlist_len(hostlist.val) = 0
              /\ ret.op = "next" => ret.ret = None

\* C7 witness: next() returned None again after the names of a non-empty
\* list had all been returned.
C7_Witness ==
    /\ hostlist.ok
    /\ len0 >= 2
    /\ Len(out) = len0
    /\ nones = MaxNones
    /\ ret.op = "next"
    /\ ret.ret = None

\* C9: construction fails with HostlistTooLarge whenever the sum of the
\* element lengths after the merge exceeds usize::MAX; otherwise the sum of
\* the lengths is that number, and in every later state the sum of the
\* lengths fits the counter.
C9_SumOverflow ==
    /\ (ret.op = "new" /\ \A i \in 1..Len(expr) : ValidTokens(expr[i])) =>
          IF PostMergeSum(expr) > USIZE_MAX
          THEN ~hostlist.ok /\ hostlist.err = <<"HostlistTooLarge">>
          ELSE hostlist.ok
               /\ TrueSum(hostlist.val.hostlist_elems) = PostMergeSum(expr)
    /\ hostlist.ok =>
          /\ TrueSum(hostlist.val.hostlist_elems) <= USIZE_MAX
          /\ Hostlist_len(hostlist.val) = TrueSum(hostlist.val.hostlist_elems)

\* C9 witness: the construction of two entries that each fit the counter,
\* and whose lengths together do not, failed with HostlistTooLarge.
C9_Witness ==
    /\ ret.op = "new"
    /\ Len(expr) = 2
    /\ \A i \in 1..Len(expr) :
          ValidTokens(expr[i]) /\ Cardinal(expr[i]) <= USIZE_MAX
    /\ PostMergeSum(expr) > USIZE_MAX
    /\ ~hostlist.ok
    /\ hostlist.err = <<"HostlistTooLarge">>

(* ----------------- specification of a view of a Hostlist --------------- *)

\* The expressions of the lists that views are taken of: up to
\* MaxViewEntries entries of HostEntries, and three lists of two elements.
ViewExprs ==
    EntrySeqs(MaxViewEntries)
    \cup { << <<StaticTok(Lit_n), RangeTok(<< <<1, 2>> >>), StaticTok(Lit_s),
                RangeTok(<< <<0, 1>> >>)>>,
              <<StaticTok(Lit_m1), RangeTok(<< <<1, 2>> >>)>> >>,
           << <<StaticTok(Lit_n), RangeTok(<< <<1, 3>>, <<2, 5>> >>)>>,
              <<StaticTok(Lit_n), RangeTok(<< <<1, 2>> >>), StaticTok(Lit_s)>> >>,
           << <<StaticTok(Lit_n)>>,
              <<StaticTok(Lit_n), RangeTok(<< <<9, 10>> >>)>> >> }

VInit ==
    /\ \E e \in ViewExprs : \E res \in Hostlist_new(e) :
          /\ expr = e
          /\ hostlist = res
          /\ len0 = IF res.ok THEN Hostlist_len(res.val) ELSE 0
    /\ out = <<>>
    /\ ret = [op |-> "new", ret |-> None, panic |-> FALSE]
    /\ nones = 0
    /\ viewIdle
    /\ srIdle
    /\ rangeIdle
    /\ elemIdle
    /\ libIdle

\* hostlist.iter(): a view of the owner as it is now.
VIter ==
    /\ hostlist.ok
    /\ ~ret.panic
    /\ view' = Some(Hostlist_iter(hostlist.val))
    /\ view_out' = <<>>
    /\ view_at' = Len(out)
    /\ ret' = [op |-> "iter", ret |-> None, panic |-> FALSE]
    /\ UNCHANGED <<expr, hostlist, len0, out, nones, srVars, rangeVars,
                   elemVars, libVars>>

\* (&hostlist).into_iter(), as a for loop over &hostlist calls it.
VIntoIter ==
    /\ hostlist.ok
    /\ ~ret.panic
    /\ view' = Some(Hostlist_into_iter(hostlist.val))
    /\ view_out' = <<>>
    /\ view_at' = Len(out)
    /\ ret' = [op |-> "into_iter", ret |-> None, panic |-> FALSE]
    /\ UNCHANGED <<expr, hostlist, len0, out, nones, srVars, rangeVars,
                   elemVars, libVars>>

\* next() on the view, until it has returned None.
VViewNext ==
    /\ IsSome(view)
    /\ ~ret.panic
    /\ ret.op # "view_next" \/ IsSome(ret.ret)
    /\ \E n \in {Hostlist_next(view[1])} :
           /\ view' = Some(n.self)
           /\ view_out' = IF IsSome(n.ret) THEN Append(view_out, n.ret[1])
                          ELSE view_out
           /\ ret' = [op |-> "view_next", ret |-> n.ret, panic |-> n.panic]
    /\ UNCHANGED <<expr, hostlist, len0, out, nones, view_at, srVars,
                   rangeVars, elemVars, libVars>>

VNext == HNext \/ HLen \/ HIsEmpty \/ VIter \/ VIntoIter \/ VViewNext

SpecView == VInit /\ [][VNext]_vars

\* The names of the expression e, as a list built from it gives them before
\* anything is pulled.
AllNames(e) == Drain((CHOOSE res \in Hostlist_new(e) : TRUE).val)

\* C15: a view taken after the owner returned N of its L names gives
\* exactly the L - N names the owner had not returned, in the owner's
\* order, whatever the owner is asked afterwards; and whatever is pulled
\* from the view, the owner's len() stays the number of names it has not
\* returned itself and the owner goes on to give the rest of its names.
C15_View ==
    (hostlist.ok /\ IsSome(view)) =>
        /\ view_out \o Drain(view[1])
              = SubSeq(AllNames(expr), view_at + 1, len0)
        /\ Len(view_out) + Hostlist_len(view[1]) = len0 - view_at
        /\ Hostlist_len(hostlist.val) = len0 - Len(out)
        /\ out \o Drain(hostlist.val) = AllNames(expr)
        /\ (ret.op = "len" => ret.ret = Some(len0 - Len(out)))

\* C15 witness: a view taken of a list of two elements after two of its
\* six names was drained of the other four, and the owner, asked for
\* another name afterwards, gave its third.
C15_Witness ==
    /\ hostlist.ok
    /\ Len(hostlist.val.hostlist_elems) = 2
    /\ IsSome(view)
    /\ view_at = 2
    /\ len0 = 6
    /\ Len(view_out) = 4
    /\ Hostlist_len(view[1]) = 0
    /\ Len(out) = 3
    /\ ret.op = "next"

(* -------------------- specification of collapse_range ------------------ *)

\* The numbers given to collapse_range: small ones, one- and two-digit
\* neighbours, and the two largest values of the type.
NumVals == {0, 1, 2, 3, 5, 9, 10, U32_MAX - 1, U32_MAX}

\* The vectors of at most n numbers of NumVals.
RECURSIVE NumSeqs(_)
NumSeqs(n) ==
    IF n = 0 THEN {<<>>}
    ELSE NumSeqs(n - 1)
         \cup { Append(e[1], e[2]) : e \in NumSeqs(n - 1) \X NumVals }

CRInit ==
    /\ nums \in NumSeqs(MaxNums)
    /\ cr = None
    /\ chIdle
    /\ rtIdle
    /\ srIdle
    /\ rangeIdle
    /\ elemIdle
    /\ hlIdle

CRCollapse ==
    /\ cr = None
    /\ cr' = Some(collapse_range(nums))
    /\ UNCHANGED <<nums, chVars, rtVars, srVars, rangeVars, elemVars, hlVars>>

SpecCollapseRange == CRInit /\ [][CRCollapse]_vars

\* The values of a sequence.
Values(seq) == { seq[i] : i \in 1..Len(seq) }

\* The end of the maximal run of consecutive members of S that starts at m.
RECURSIVE RunEnd(_, _)
RunEnd(S, m) == IF (m + 1) \in S THEN RunEnd(S, m + 1) ELSE m

\* The maximal runs of consecutive members of S in ascending order, each a
\* pair <<first, last>>.
RECURSIVE Runs(_)
Runs(S) ==
    IF S = {} THEN <<>>
    ELSE <<<<Ascending(S)[1], RunEnd(S, Ascending(S)[1])>>>>
         \o Runs({ x \in S : x > RunEnd(S, Ascending(S)[1]) })

\* A run as text: 'first-last', or the decimal string of a single value.
RunText(run) ==
    IF run[1] = run[2] THEN to_string(run[1])
    ELSE to_string(run[1]) \o Hyphen \o to_string(run[2])

\* The texts of the runs joined by commas.
RECURSIVE JoinRuns(_)
JoinRuns(runs) ==
    IF runs = <<>> THEN <<>>
    ELSE IF Len(runs) = 1 THEN RunText(runs[1])
    ELSE RunText(runs[1]) \o Comma \o JoinRuns(Tail(runs))

\* C17: collapse_range gives the maximal runs of consecutive integers of
\* the set of its input in ascending order, comma-joined, a run of two or
\* more values as 'first-last' and a single value as its decimal string, in
\* brackets iff there is more than one run or a run of two or more values;
\* the empty input gives the empty string.
C17_CollapseRange ==
    IsSome(cr) =>
        /\ cr[1] = IF Len(Runs(Values(nums))) > 1
                      \/ \E i \in 1..Len(Runs(Values(nums))) :
                            Runs(Values(nums))[i][1] < Runs(Values(nums))[i][2]
                   THEN LBracket \o JoinRuns(Runs(Values(nums))) \o RBracket
                   ELSE JoinRuns(Runs(Values(nums)))
        /\ nums = <<>> => cr[1] = <<>>

\* C17 witness: an unsorted input with a repeated value gave a bracketed
\* text with a run and a single value.
C17_Witness ==
    /\ nums = <<5, 1, 2, 1>>
    /\ cr = Some(<<91, 49, 45, 50, 44, 53, 93>>)

(* -------------------- specification of collapse_hosts ------------------ *)

\* The names given to collapse_hosts: "", "n", "s.n", "1", "2", "n1", "n2",
\* "n3", "n01", "n5", "m1", "n1s", "n?", "n[1-2]", and "n" followed by
\* u32::MAX and by u32::MAX + 1.
HostNames ==
    { <<>>, Lit_n, <<115, 46, 110>>, <<49>>, <<50>>, <<110, 49>>, <<110, 50>>,
      <<110, 51>>, <<110, 48, 49>>, <<110, 53>>, Lit_m1, <<110, 49, 115>>,
      <<110, 63>>, <<110, 91, 49, 45, 50, 93>>,
      Lit_n \o to_string(U32_MAX), Lit_n \o to_string(U32_MAX + 1) }

\* The lists of at most n names of HostNames.
RECURSIVE HostSeqs(_)
HostSeqs(n) ==
    IF n = 0 THEN {<<>>}
    ELSE HostSeqs(n - 1)
         \cup { Append(e[1], e[2]) : e \in HostSeqs(n - 1) \X HostNames }

CHInit ==
    /\ hosts \in HostSeqs(MaxHosts)
    /\ ch = None
    /\ crIdle
    /\ rtIdle
    /\ srIdle
    /\ rangeIdle
    /\ elemIdle
    /\ hlIdle

CHCollapse ==
    /\ ch = None
    /\ \E res \in collapse_hosts(hosts) : ch' = Some(res)
    /\ UNCHANGED <<hosts, crVars, rtVars, srVars, rangeVars, elemVars, hlVars>>

SpecCollapse == CHInit /\ [][CHCollapse]_vars

\* The name ends with a digit.
HasSuffix(name) == name # <<>> /\ IsDigit(name[Len(name)])

\* The name without the digits that end it, and the number they denote.
NamePrefix(name) == SubSeq(name, 1, SuffixStart(name, Len(name) + 1) - 1)

NameSuffix(name) ==
    DigitsValue(SubSeq(name, SuffixStart(name, Len(name) + 1), Len(name)))

\* The name has the simple-hostname shape.
Matches(name) == \A i \in 1..Len(name) : IsHostChar(name[i])

\* collapse_hosts takes the name: it is not empty, has the shape and its
\* suffix, if any, fits u32.
GoodName(name) ==
    /\ name # <<>>
    /\ Matches(name)
    /\ HasSuffix(name) => NameSuffix(name) <= U32_MAX

\* The names without a numeric suffix, in input order.
RECURSIVE Literals(_)
Literals(names) ==
    IF names = <<>> THEN <<>>
    ELSE (IF HasSuffix(Head(names)) THEN <<>> ELSE <<Head(names)>>)
         \o Literals(Tail(names))

\* The prefixes of the names with a numeric suffix, and the suffixes that
\* occur with a prefix.
Prefixes(names) ==
    { NamePrefix(names[i]) : i \in { j \in 1..Len(names) : HasSuffix(names[j]) } }

Suffixes(names, prefix) ==
    { NameSuffix(names[i])
      : i \in { j \in 1..Len(names) :
                  HasSuffix(names[j]) /\ NamePrefix(names[j]) = prefix } }

\* The texts of a finite set in ascending order.
RECURSIVE AscendingTexts(_)
AscendingTexts(S) ==
    IF S = {} THEN <<>>
    ELSE <<CHOOSE x \in S : \A y \in S : CmpSeq(x, y) <= 0>>
         \o AscendingTexts(S \ {CHOOSE x \in S : \A y \in S : CmpSeq(x, y) <= 0})

\* The text of a set of numbers: its runs, in brackets unless the set has
\* fewer than two members.
SetText(S) ==
    IF Cardinality(S) >= 2 THEN LBracket \o JoinRuns(Runs(S)) \o RBracket
    ELSE JoinRuns(Runs(S))

\* A sequence of texts joined by commas.
RECURSIVE Joined(_)
Joined(texts) ==
    IF texts = <<>> THEN <<>>
    ELSE IF Len(texts) = 1 THEN texts[1]
    ELSE texts[1] \o Comma \o Joined(Tail(texts))

\* The names without a suffix in input order, then one entry per prefix in
\* ascending order of the prefixes.
CollapsedText(names) ==
    Joined(Literals(names)
           \o [k \in 1..Cardinality(Prefixes(names)) |->
                 AscendingTexts(Prefixes(names))[k]
                 \o SetText(Suffixes(names, AscendingTexts(Prefixes(names))[k]))])

\* C18: the output of collapse_hosts is every name without a numeric
\* suffix in input order, repeats kept, then one entry per distinct prefix
\* of the names with a suffix in ascending order of the prefixes, each with
\* the text of the set of its suffixes, whatever the order of the names and
\* however often a name occurs.
C18_CollapseHosts ==
    (IsSome(ch) /\ \A i \in 1..Len(hosts) : GoodName(hosts[i])) =>
        /\ ch[1].ok
        /\ ch[1].val = CollapsedText(hosts)

\* C18 witness: n2, s.n, m1 gave s.n,m1,n2: the name without a suffix
\* first, then the prefixes in ascending order.
C18_Witness ==
    /\ IsSome(ch)
    /\ hosts = <<<<110, 50>>, <<115, 46, 110>>, Lit_m1>>
    /\ ch[1] = Ok(<<115, 46, 110, 44, 109, 49, 44, 110, 50>>)

\* The first name collapse_hosts does not take.
FirstBad(names) ==
    names[CHOOSE i \in 1..Len(names) :
            /\ ~GoodName(names[i])
            /\ \A j \in 1..(i - 1) : GoodName(names[j])]

\* C19 as stated: when a name is empty or does not have the shape (and the
\* suffix of every name fits u32), collapse_hosts fails with
\* InvalidHostname carrying the first such name.
C19_InvalidHostname ==
    (/\ IsSome(ch)
     /\ \E i \in 1..Len(hosts) : hosts[i] = <<>> \/ ~Matches(hosts[i])
     /\ \A i \in 1..Len(hosts) :
           (Matches(hosts[i]) /\ HasSuffix(hosts[i]))
               => NameSuffix(hosts[i]) <= U32_MAX) =>
        /\ ~ch[1].ok
        /\ ch[1].err = <<"InvalidHostname", FirstBad(hosts)>>

\* C19 amended: when a name is empty, does not have the shape or has a
\* suffix above u32::MAX, collapse_hosts returns no text but the error of
\* the first such name: InvalidHostname with the text for the empty name,
\* a parse error for a name without the shape, an integer parse error for
\* the suffix; it succeeds otherwise.
C19_FirstBadName ==
    IsSome(ch) =>
        IF \E i \in 1..Len(hosts) : ~GoodName(hosts[i])
        THEN /\ ~ch[1].ok
             /\ ch[1].val = <<>>
             /\ ch[1].err =
                   IF FirstBad(hosts) = <<>>
                   THEN <<"InvalidHostname", FirstBad(hosts)>>
                   ELSE IF ~Matches(FirstBad(hosts)) THEN <<"ParseError">>
                   ELSE <<"ParseIntError">>
        ELSE ch[1].ok

\* C19 witness: the list n1, n?, "" was refused with the parse error of n?.
C19_Witness ==
    /\ IsSome(ch)
    /\ hosts = <<<<110, 49>>, <<110, 63>>, <<>>>>
    /\ ~ch[1].ok
    /\ ch[1].err = <<"ParseError">>

(* ------------- specification of rendering and the round trip ----------- *)

\* The entries of the expressions that are rendered, expanded and
\* collapsed: n, s, n1, n[1-2], n[4], s[1-2], [1-2], n[1-3,2-5], m1[1-2],
\* n[1-2]s, n[1-2]s[0-1].
RtEntries ==
    { <<StaticTok(Lit_n)>>,
      <<StaticTok(Lit_s)>>,
      <<StaticTok(<<110, 49>>)>>,
      <<StaticTok(Lit_n), RangeTok(<< <<1, 2>> >>)>>,
      <<StaticTok(Lit_n), RangeTok(<< <<4, 4>> >>)>>,
      <<StaticTok(Lit_s), RangeTok(<< <<1, 2>> >>)>>,
      <<RangeTok(<< <<1, 2>> >>)>>,
      <<StaticTok(Lit_n), RangeTok(<< <<1, 3>>, <<2, 5>> >>)>>,
      <<StaticTok(Lit_m1), RangeTok(<< <<1, 2>> >>)>>,
      <<StaticTok(Lit_n), RangeTok(<< <<1, 2>> >>), StaticTok(Lit_s)>>,
      <<StaticTok(Lit_n), RangeTok(<< <<1, 2>> >>), StaticTok(Lit_s),
        RangeTok(<< <<0, 1>> >>)>> }

\* The sequences of at most n entries of RtEntries.
RECURSIVE RtSeqs(_)
RtSeqs(n) ==
    IF n = 0 THEN {<<>>}
    ELSE RtSeqs(n - 1)
         \cup { Append(e[1], e[2]) : e \in RtSeqs(n - 1) \X RtEntries }

\* expand_hostlist on a parsed expression: the set of outcomes, each a
\* Result<Vec<String>>, the names collected from a new Hostlist.
expand_hostlist(e) ==
    { IF res.ok THEN Ok(Drain(res.val)) ELSE res : res \in Hostlist_new(e) }

RTInit ==
    /\ \E e \in RtSeqs(MaxRtEntries) : \E res \in Hostlist_new(e) :
          /\ expr = e
          /\ hostlist = res
          /\ len0 = IF res.ok THEN Hostlist_len(res.val) ELSE 0
    /\ out = <<>>
    /\ ret = [op |-> "new", ret |-> None, panic |-> FALSE]
    /\ nones = 0
    /\ viewIdle
    /\ srIdle
    /\ rangeIdle
    /\ elemIdle
    /\ libIdle

\* hostlist.to_string().
RTToString ==
    /\ hostlist.ok
    /\ text = None
    /\ text' = Some(Hostlist_to_string(hostlist.val))
    /\ UNCHANGED <<expanded, reparsed, crVars, chVars, srVars, rangeVars,
                   elemVars, hlVars>>

\* Hostlist::new on the text to_string() gave.
RTReparse ==
    /\ IsSome(text)
    /\ reparsed = None
    /\ \E res \in Hostlist_new_str(text[1]) : reparsed' = Some(res)
    /\ UNCHANGED <<text, expanded, crVars, chVars, srVars, rangeVars,
                   elemVars, hlVars>>

\* expand_hostlist on the expression.
RTExpand ==
    /\ expanded = None
    /\ \E res \in expand_hostlist(expr) : expanded' = Some(res)
    /\ UNCHANGED <<text, reparsed, crVars, chVars, srVars, rangeVars,
                   elemVars, hlVars>>

\* collapse_hosts on the names expand_hostlist gave.
RTCollapse ==
    /\ IsSome(expanded)
    /\ expanded[1].ok
    /\ ch = None
    /\ hosts' = expanded[1].val
    /\ \E res \in collapse_hosts(expanded[1].val) : ch' = Some(res)
    /\ UNCHANGED <<text, expanded, reparsed, crVars, srVars, rangeVars,
                   elemVars, hlVars>>

RTNext == RTToString \/ RTReparse \/ RTExpand \/ RTCollapse

SpecRoundTrip == RTInit /\ [][RTNext]_vars

\* An entry of literal text alone, and one of literal text followed by one
\* bracket group.
LiteralOnly(entry) == Len(entry) = 1 /\ entry[1].kind = "static_elem"

OneGroup(entry) ==
    /\ Len(entry) = 2
    /\ entry[1].kind = "static_elem"
    /\ entry[2].kind = "range"

\* The values the bracket groups of the entries of e with the literal text
\* s hold together.
ValuesFor(e, s) ==
    UNION { GroupSet(e[j][2].items)
            : j \in { k \in 1..Len(e) : OneGroup(e[k]) /\ e[k][1].s = s } }

\* Every entry of e is literal text that does not end with a digit, alone
\* or followed by one bracket group; the groups that follow the same text
\* hold at least two values together; and no text that stands alone is
\* greater than a text followed by a group.
PrefixShaped(e) ==
    /\ \A i \in 1..Len(e) :
          /\ LiteralOnly(e[i]) \/ OneGroup(e[i])
          /\ e[i][1].s # <<>>
          /\ ~IsDigit(e[i][1].s[Len(e[i][1].s)])
          /\ OneGroup(e[i]) => Cardinality(ValuesFor(e, e[i][1].s)) >= 2
    /\ \A i, j \in 1..Len(e) :
          (LiteralOnly(e[i]) /\ OneGroup(e[j]))
              => CmpSeq(e[i][1].s, e[j][1].s) <= 0

\* C12, as stated: for every valid expression, collapse_hosts of the names
\* expand_hostlist gives is the text to_string() gives of the Hostlist.
C12_RoundTrip ==
    (hostlist.ok /\ IsSome(ch)) =>
        ch[1] = Ok(Hostlist_to_string(hostlist.val))

\* C12, amended: collapse_hosts of the names expand_hostlist gives is the
\* text to_string() gives of the Hostlist for every valid expression whose
\* entries are each literal text that does not end with a digit, alone or
\* followed by one bracket group, whose groups after the same text hold at
\* least two values together, and in which no text that stands alone is
\* greater than a text followed by a group.
C12_RoundTripPrefixShaped ==
    (hostlist.ok /\ IsSome(ch) /\ PrefixShaped(expr)) =>
        /\ expanded = Some(Ok(hosts))
        /\ ch[1] = Ok(Hostlist_to_string(hostlist.val))

\* C12 witness: "n[4],n[1-2]" was expanded to n1, n2, n4 and these names
\* were collapsed to "n[1-2,4]".
C12_Witness ==
    /\ hostlist.ok
    /\ PrefixShaped(expr)
    /\ Len(expr) = 2
    /\ hosts = << <<110, 49>>, <<110, 50>>, <<110, 52>> >>
    /\ IsSome(ch)
    /\ ch[1] = Ok(<<110, 91, 49, 45, 50, 44, 52, 93>>)

\* The values a Range covers.
RangeValues(r) ==
    UNION { r.ranges[k].start .. r.ranges[k].end : k \in 1..Len(r.ranges) }

\* The text of a component in normal form: the literal text, or the
\* maximal runs of the values of the Range in ascending order in brackets,
\* a run of one value as the value alone.
NormalText(c) ==
    IF c.kind = "Static" THEN c.s
    ELSE LBracket \o JoinRuns(Runs(RangeValues(c.r))) \o RBracket

RECURSIVE NormalElemText(_, _)
NormalElemText(components, i) ==
    IF i > Len(components) THEN <<>>
    ELSE NormalText(components[i]) \o NormalElemText(components, i + 1)

\* The elements are in ascending order.
ElemsAscending(h) ==
    \A i, j \in 1..Len(h.hostlist_elems) :
        i < j => CmpElem(h.hostlist_elems[i], h.hostlist_elems[j]) <= 0

\* C13: the text t that to_string() gives of the Hostlist of a valid
\* expression is a normal form: Hostlist::new(t) succeeds with a Hostlist
\* equal to the one rendered, which renders to t again; in t the intervals
\* of a group are the maximal runs of its values, a single value stands in
\* brackets as [v], and the elements are in ascending order.
C13_NormalForm ==
    (hostlist.ok /\ IsSome(text)) =>
        /\ text[1] = JoinComma([i \in 1..Len(hostlist.val.hostlist_elems) |->
                         NormalElemText(
                             hostlist.val.hostlist_elems[i].components, 1)])
        /\ ElemsAscending(hostlist.val)
        /\ IsSome(reparsed) =>
              /\ reparsed[1].ok
              /\ reparsed[1].val = hostlist.val
              /\ Hostlist_to_string(reparsed[1].val) = text[1]
              /\ Hostlist_new_str(text[1]) = {reparsed[1]}

\* C13 witness: "n[4],n[1-3,2-5]" was rendered as "n[1-5]" and "s,n[4]" as
\* "n[4],s", and the text was given to Hostlist::new.
C13_Witness ==
    /\ hostlist.ok
    /\ Len(expr) = 2
    /\ text \in { Some(<<110, 91, 49, 45, 53, 93>>),
                  Some(<<110, 91, 52, 93, 44, 115>>) }
    /\ IsSome(reparsed)
    /\ reparsed[1].ok

\* The orders of the entries of an expression.
EntryOrders(e) ==
    { [i \in 1..Len(e) |-> e[f[i]]]
      : f \in { g \in [1..Len(e) -> 1..Len(e)] :
                  \A a, b \in 1..Len(e) : a # b => g[a] # g[b] } }

\* The names of the elements from the i-th on, element after element.
RECURSIVE NamesInOrder(_, _)
NamesInOrder(hostlist_elems, i) ==
    IF i > Len(hostlist_elems) THEN <<>>
    ELSE DrainElem(hostlist_elems[i]) \o NamesInOrder(hostlist_elems, i + 1)

\* C14: the elements of a constructed Hostlist are in ascending order, its
\* text and its names are those of the elements in that order, and
\* Hostlist::new gives this Hostlist, this text and these names for every
\* order of the entries and every iteration order of the hash map.
C14_OrderIndependent ==
    hostlist.ok =>
        /\ ElemsAscending(hostlist.val)
        /\ \A p \in EntryOrders(expr) : Hostlist_new(p) = {hostlist}
        /\ IsSome(text) =>
              /\ text[1] =
                    JoinComma([i \in 1..Len(hostlist.val.hostlist_elems) |->
                        HostlistElem_to_string(hostlist.val.hostlist_elems[i])])
              /\ \A p \in EntryOrders(expr) : \A res \in Hostlist_new(p) :
                    res.ok /\ Hostlist_to_string(res.val) = text[1]
        /\ IsSome(expanded) =>
              /\ expanded[1] =
                    Ok(NamesInOrder(hostlist.val.hostlist_elems, 1))
              /\ \A p \in EntryOrders(expr) :
                    expand_hostlist(p) = {expanded[1]}

\* C14 witness: "s[1-2],n[1-2]s" was constructed, rendered and expanded
\* with n[1-2]s before s[1-2].
C14_Witness ==
    /\ hostlist.ok
    /\ expr = << <<StaticTok(Lit_s), RangeTok(<< <<1, 2>> >>)>>,
                 <<StaticTok(Lit_n), RangeTok(<< <<1, 2>> >>),
                   StaticTok(Lit_s)>> >>
    /\ text = Some(<<110, 91, 49, 45, 50, 93, 115, 44,
                     115, 91, 49, 45, 50, 93>>)
    /\ IsSome(expanded)
    /\ expanded[1].ok
    /\ expanded[1].val[1] = <<110, 49, 115>>

(* ----------------- specification of one call of add_range -------------- *)

\* The range set that holds the integers of S: its maximal runs as stored
\* intervals, which is what insertions leave.
RangeOf(S) ==
    [ranges |-> [k \in 1..Len(Runs(S)) |->
                    SimpleRange_new(Runs(S)[k][1], Runs(S)[k][2]).val],
     latest |-> None]

ARInit ==
    /\ arIdle
    /\ range = Range_new
    /\ covered = {}
    /\ range_ret = [op |-> "idle", ok |-> TRUE, ret |-> None,
                    overlap |-> FALSE]
    /\ srIdle
    /\ elemIdle
    /\ hlIdle
    /\ libIdle

\* add_range is entered with a range set over 0..MaxVal, with or without
\* the largest valid value, and a valid candidate, which is put in the
\* work queue.
ARCall ==
    /\ ar_pc = "idle"
    /\ \E S \in SUBSET (0..MaxVal), top \in SUBSET {U32_MAX - 1} :
          /\ ar_range' = RangeOf(S \cup top)
          /\ ar_ranges' = RangeOf(S \cup top).ranges
    /\ \E sr \in Intervals :
          /\ ar_cand' = <<sr.start, sr.end>>
          /\ ar_queue' = {<<sr.start, sr.end>>}
    /\ ar_pc' = "loop"
    /\ UNCHANGED <<range, covered, range_ret, srVars, elemVars, hlVars,
                   libVars>>

\* One pass of `while let Some(&(lo, hi)) = rangeset.iter().next()`: any
\* pending fragment is taken.
ARTake ==
    /\ ar_pc = "loop"
    /\ \E f \in ar_queue : \E t \in {TakeFragment(ar_ranges, ar_queue, f)} :
          /\ ar_ranges' = t.ranges
          /\ ar_queue' = t.rangeset
    /\ UNCHANGED <<ar_range, ar_cand, ar_pc, range, covered, range_ret,
                   srVars, elemVars, hlVars, libVars>>

\* The queue is empty: condense_ranges, and the call returns.
ARCondense ==
    /\ ar_pc = "loop"
    /\ ar_queue = {}
    /\ \E c \in {condense_ranges([ar_range EXCEPT !.ranges = ar_ranges])} :
          /\ ar_ranges' = c.val.ranges
          /\ range_ret' = [op |-> "add_range", ok |-> c.ok, ret |-> None,
                           overlap |-> FALSE]
    /\ ar_pc' = "done"
    /\ UNCHANGED <<ar_range, ar_cand, ar_queue, range, covered, srVars,
                   elemVars, hlVars, libVars>>

ARNext == ARCall \/ ARTake \/ ARCondense

\* The step of ARCondense as seen on the position of the call.
ARReturn == ar_pc = "loop" /\ ar_queue = {} /\ ar_pc' = "done"

\* The call is sequential code that keeps running: a pass that can be made
\* is made, and the call returns once the queue is empty.
SpecAddRange ==
    ARInit /\ [][ARNext]_vars /\ WF_vars(ARTake) /\ WF_ar_pc(ARReturn)

\* The number of integers in the fragments of a work queue.
RECURSIVE QueueWeight(_)
QueueWeight(q) ==
    IF q = {} THEN 0
    ELSE (LET f == CHOOSE x \in q : TRUE IN f[2] - f[1] + 1)
         + QueueWeight(q \ {CHOOSE x \in q : TRUE})

\* C30: add_range terminates: every pass takes a fragment out of the work
\* queue and puts back only strictly shorter ones, inside the fragment
\* taken, so the queue becomes empty and the call returns.
C30_AddRangeTerminates ==
    /\ [][(ar_pc = "loop" /\ ar_queue' # ar_queue) =>
             /\ \E f \in ar_queue :
                   /\ f \notin ar_queue'
                   /\ \A g \in ar_queue' \ ar_queue :
                         /\ f[1] < g[1]
                         /\ g[1] <= g[2]
                         /\ g[2] <= f[2]
             /\ QueueWeight(ar_queue') < QueueWeight(ar_queue)]_vars
    /\ (ar_pc = "loop") ~> (ar_pc = "done" /\ ar_queue = {})

\* C30 witness: the call returned after a candidate that contains two
\* stored intervals, with room on either side, was split twice: one
\* interval is left.
C30_Witness ==
    /\ ar_pc = "done"
    /\ Len(ar_range.ranges) = 2
    /\ ar_cand[1] < ar_range.ranges[1].start
    /\ ar_cand[2] > ar_range.ranges[2].end
    /\ Bounds([ranges |-> ar_ranges]) = <<ar_cand>>

(* ---------------- the odometer step of one HostlistElem ---------------- *)

\* The indices of the range components of an element.
RangeSlots(components) ==
    { i \in 1..Len(components) : components[i].kind = "Range" }

SetMin(S) == CHOOSE x \in S : \A y \in S : x <= y

SetMax(S) == CHOOSE x \in S : \A y \in S : x >= y

\* The name made of the literal texts and of the value each range component
\* returned last.
RECURSIVE HostOfLatest(_, _)
HostOfLatest(components, i) ==
    IF i > Len(components) THEN <<>>
    ELSE (IF components[i].kind = "Static" THEN components[i].s
          ELSE to_string(components[i].r.latest[1]))
         \o HostOfLatest(components, i + 1)

\* The range components of cs that are not at their last value.
NotAtLast(cs) ==
    { i \in RangeSlots(cs) :
        cs[i].r.latest # Some(SetMax(RangeValues(cs[i].r))) }

\* after and ret are what one call of next() made of the element before,
\* whose remaining length is positive, as an odometer does: on the first
\* output every range component is at its first value; later the rightmost
\* range component that is not at its last value moves to its next value,
\* those on its right are at their first value, those on its left keep
\* theirs; the name returned is made of these values.
OdometerStep(before, after, r) ==
    LET cs  == before.components
        cs2 == after.components
    IN  /\ ~r.panic
        /\ Len(cs2) = Len(cs)
        /\ \A i \in RangeSlots(cs) :
              /\ cs2[i].kind = "Range"
              /\ RangeValues(cs2[i].r) = RangeValues(cs[i].r)
        /\ IF before.latest = None
           THEN \A i \in RangeSlots(cs) :
                   cs2[i].r.latest = Some(SetMin(RangeValues(cs[i].r)))
           ELSE /\ NotAtLast(cs) # {}
                /\ \A i \in RangeSlots(cs) :
                      cs2[i].r.latest =
                         IF i = SetMax(NotAtLast(cs))
                         THEN Some(SetMin({ v \in RangeValues(cs[i].r) :
                                              v > cs[i].r.latest[1] }))
                         ELSE IF i > SetMax(NotAtLast(cs))
                         THEN Some(SetMin(RangeValues(cs[i].r)))
                         ELSE cs[i].r.latest
        /\ r.ret = Some(HostOfLatest(cs2, 1))

\* C22: in one call of next() on an element whose remaining length is
\* positive, the rightmost range component that is not at its last value
\* advances to its next value, every range component on its right wraps to
\* its first value and every one on its left keeps the value it gave to the
\* previous name; on the first output every range component gives its first
\* value.
C22_OdometerStep ==
    [][(elem.ok /\ elem.val.len > 0 /\ elem_ret'.op = "next") =>
          OdometerStep(elem.val, elem'.val, elem_ret')]_vars

\* C22 witness: n[1-2][1-2][3,0-1] gave n110, n111, n113 and then n120: the
\* last range wrapped to 0, the middle one advanced to 2 and the first one
\* kept 1.
C22_Witness ==
    /\ elem_in = <<StaticTok(Lit_n), RangeTok(<< <<1, 2>> >>),
                   RangeTok(<< <<1, 2>> >>),
                   RangeTok(<< <<3, 3>>, <<0, 1>> >>)>>
    /\ elem.ok
    /\ Len(elem_out) = 4
    /\ elem_ret.ret = Some(<<110, 49, 50, 48>>)
    /\ elem.val.components[2].r.latest = Some(1)
    /\ elem.val.components[3].r.latest = Some(2)
    /\ elem.val.components[4].r.latest = Some(0)
    /\ elem.val.len = 8

(* ------- specification of a HostlistElem with update_len and resets ------ *)

\* The entries of this specification: n, n[1-2], n[7]s and n[1-2][3,0-1].
ElemOpsEntries ==
    { <<StaticTok(Lit_n)>>,
      <<StaticTok(Lit_n), RangeTok(<< <<1, 2>> >>)>>,
      <<StaticTok(Lit_n), RangeTok(<< <<7, 7>> >>), StaticTok(Lit_s)>>,
      <<StaticTok(Lit_n), RangeTok(<< <<1, 2>> >>),
        RangeTok(<< <<3, 3>>, <<0, 1>> >>)>> }

EOInit ==
    /\ \E tokens \in ElemOpsEntries : \E res \in HostlistElem_new(tokens) :
          /\ elem_in = tokens
          /\ elem = res
    /\ elem_out = <<>>
    /\ elem_ret = [op |-> "new", ret |-> None, panic |-> FALSE]
    /\ elem_upd = Ok(<<>>)
    /\ elem_calls = 0
    /\ srIdle
    /\ rangeIdle
    /\ hlIdle
    /\ libIdle

\* A call of update_len on the element.
EUpdateLen ==
    /\ elem.ok
    /\ ~elem_ret.panic
    /\ elem_calls < MaxElemCalls
    /\ \E u \in {update_len(elem.val)} :
          /\ elem' = [elem EXCEPT !.val = u.val]
          /\ elem_upd' = IF u.ok THEN Ok(<<>>) ELSE Err(u.err)
    /\ elem_ret' = [op |-> "update_len", ret |-> None, panic |-> FALSE]
    /\ elem_calls' = elem_calls + 1
    /\ UNCHANGED <<elem_in, elem_out, srVars, rangeVars, hlVars, libVars>>

\* A call of Range::reset on one range component of the element, through
\* its public field `components`.
EResetRange ==
    /\ elem.ok
    /\ ~elem_ret.panic
    /\ elem_calls < MaxElemCalls
    /\ \E i \in RangeSlots(elem.val.components) :
          elem' = [elem EXCEPT !.val.components[i].r = Range_reset(@)]
    /\ elem_ret' = [op |-> "reset", ret |-> None, panic |-> FALSE]
    /\ elem_calls' = elem_calls + 1
    /\ UNCHANGED <<elem_in, elem_out, elem_upd, srVars, rangeVars, hlVars,
                   libVars>>

EONext == ENext \/ EUpdateLen \/ EResetRange

SpecElemOps == EOInit /\ [][EONext]_vars

\* C23: once the remaining length of an element is 0, a call of next()
\* returns None and leaves every range cursor as it was, whether or not the
\* range sets were reset or still hold values; neither next() nor a reset
\* of a range ever increases the remaining length.
C23_ExhaustedStays ==
    /\ [][(elem.ok /\ elem.val.len = 0 /\ elem_ret'.op = "next") =>
             /\ elem_ret'.ret = None
             /\ ~elem_ret'.panic
             /\ elem'.val.components = elem.val.components
             /\ elem'.val.len = 0
             /\ elem_out' = elem_out]_vars
    /\ [][(elem.ok /\ elem_ret'.op \in {"next", "reset"}) =>
             elem'.val.len <= elem.val.len]_vars

\* C23 witness: n[1-2][3,0-1] gave its six names, both of its range sets
\* were reset and hold all their values again, and next() returned None.
C23_Witness ==
    /\ elem_in = <<StaticTok(Lit_n), RangeTok(<< <<1, 2>> >>),
                   RangeTok(<< <<3, 3>>, <<0, 1>> >>)>>
    /\ elem.ok
    /\ Len(elem_out) = 6
    /\ elem.val.len = 0
    /\ Range_len(elem.val.components[2].r) = 2
    /\ Range_len(elem.val.components[3].r) = 3
    /\ elem_ret.op = "next"
    /\ elem_ret.ret = None

\* C24: once an element has returned a name, every call of update_len
\* fails with the Internal error and leaves the remaining length as it was,
\* also after calls of next() that returned None.
C24_UpdateLenAfterEmission ==
    [][(elem.ok /\ Len(elem_out) >= 1 /\ elem_ret'.op = "update_len"
           /\ elem_calls' # elem_calls) =>
          /\ elem_upd' = Err(<<"Internal">>)
          /\ elem'.val.len = elem.val.len]_vars

\* C24 witness: the element n returned n, then None; update_len succeeded
\* and set the remaining length to 1, and next() returned n a second time.
C24_Witness ==
    /\ elem_in = <<StaticTok(Lit_n)>>
    /\ elem.ok
    /\ elem_upd.ok
    /\ elem_calls = 1
    /\ elem_out = <<Lit_n, Lit_n>>

(* ------------------- the elements and names of a Hostlist --------------- *)

\* How often x occurs in the sequence names.
Count(names, x) == Cardinality({ i \in 1..Len(names) : names[i] = x })

\* The names one entry denotes, as a set.
NameSet(tokens) ==
    { ProductNames(tokens)[i] : i \in 1..Len(ProductNames(tokens)) }

\* Entry i of e has no range slot, or more than one.
Unmerged(e, i) == Cardinality(RangeTokens(e[i])) # 1

\* The sum of the cardinalities of the entries of e from entry i on.
RECURSIVE CardinalSum(_, _)
CardinalSum(e, i) ==
    IF i > Len(e) THEN 0 ELSE Cardinal(e[i]) + CardinalSum(e, i + 1)

\* The names entry i of e stands for in the constructed list, one per
\* tuple of values: its own names, or for an entry merged with others those
\* of the merged element, listed for the first entry of its class.
Denoted(e, i) ==
    IF Mergeable(e, i)
    THEN IF \A j \in SameClass(e, i) : i <= j
         THEN ProductNames(WithRangeSet(e[i], UnionOf(e, i))) ELSE <<>>
    ELSE ProductNames(e[i])

\* How often the entries of e from entry i on stand for the name x.
RECURSIVE DenotedCount(_, _, _)
DenotedCount(e, i, x) ==
    IF i > Len(e) THEN 0
    ELSE Count(Denoted(e, i), x) + DenotedCount(e, i + 1, x)

\* C25: the entries whose fingerprint has no range slot or at least two are
\* never merged: each is an element of its own, also when other entries
\* have the same fingerprint or the same text; the length of an expression
\* made of such entries is the sum of their cardinalities, and a name that
\* several of them denote is returned once for each of them (as often as
\* the entries give it when expanded one by one).
C25_NoMergeOtherwise ==
    hostlist.ok =>
        /\ ret.op = "new" =>
              \A i \in 1..Len(expr) : Unmerged(expr, i) =>
                 /\ Cardinality(ElemsWithFp(hostlist.val, EntryFp(expr[i])))
                       = Cardinality(SameClass(expr, i))
                 /\ Cardinality(
                       { k \in ElemsWithFp(hostlist.val, EntryFp(expr[i])) :
                           Ok(hostlist.val.hostlist_elems[k])
                              \in HostlistElem_new(expr[i]) })
                       = Cardinality(
                            { j \in SameClass(expr, i) :
                                HostlistElem_new(expr[j])
                                   = HostlistElem_new(expr[i]) })
        /\ (\A i \in 1..Len(expr) : Unmerged(expr, i)) =>
              len0 = CardinalSum(expr, 1)
        /\ nones >= 1 =>
              \A i \in 1..Len(expr) : Unmerged(expr, i) =>
                 \A x \in NameSet(expr[i]) :
                    Count(out, x) = DenotedCount(expr, 1, x)

\* C25 witness: n[1-2]s[0-1],n[2-3]s[1] was constructed as two elements of
\* lengths 4 and 2 and drained: n2s1, which both entries denote, was
\* returned twice.
C25_Witness ==
    /\ hostlist.ok
    /\ expr = << <<StaticTok(Lit_n), RangeTok(<< <<1, 2>> >>),
                   StaticTok(Lit_s), RangeTok(<< <<0, 1>> >>)>>,
                 <<StaticTok(Lit_n), RangeTok(<< <<2, 3>> >>),
                   StaticTok(Lit_s), RangeTok(<< <<1, 1>> >>)>> >>
    /\ Len(hostlist.val.hostlist_elems) = 2
    /\ len0 = 6
    /\ nones >= 1
    /\ Count(out, <<110, 50, 115, 49>>) = 2

\* The elements of h that still have names.
Live(h) ==
    { k \in 1..Len(h.hostlist_elems) :
        HostlistElem_len(h.hostlist_elems[k]) > 0 }

\* The call of Hostlist::next that made after of before and returned r took
\* the name from the first element that had one: that element is what its
\* own next() leaves, one name shorter, the name is the one it gave, and
\* the length and the components of every other element are as before.
PullsFirst(before, after, r) ==
    /\ Live(before) # {}
    /\ Len(after.hostlist_elems) = Len(before.hostlist_elems)
    /\ \A k \in 1..Len(before.hostlist_elems) :
          IF k = SetMin(Live(before))
          THEN /\ after.hostlist_elems[k]
                     = HostlistElem_next(before.hostlist_elems[k]).self
               /\ r.ret = HostlistElem_next(before.hostlist_elems[k]).ret
               /\ r.ret = after.hostlist_elems[k].latest
               /\ HostlistElem_len(after.hostlist_elems[k])
                     = HostlistElem_len(before.hostlist_elems[k]) - 1
          ELSE /\ HostlistElem_len(after.hostlist_elems[k])
                     = HostlistElem_len(before.hostlist_elems[k])
               /\ after.hostlist_elems[k].components
                     = before.hostlist_elems[k].components

\* C26: a call of Hostlist::next that returns a name takes it from the
\* first element, in stored order, whose remaining length is positive,
\* lowers that element's length by exactly 1 and leaves the length and the
\* range cursors of every other element as they were.
C26_PullsFirst ==
    [][(hostlist.ok /\ ret'.op = "next" /\ IsSome(ret'.ret)) =>
          PullsFirst(hostlist.val, hostlist'.val, ret')]_vars

\* C26 witness: with the first of two elements used up and the second one
\* untouched until then, next() returned the second name of the second
\* element.
C26_Witness ==
    /\ hostlist.ok
    /\ Len(hostlist.val.hostlist_elems) = 2
    /\ HostlistElem_len(hostlist.val.hostlist_elems[1]) = 0
    /\ HostlistElem_len(hostlist.val.hostlist_elems[2]) > 0
    /\ ret.op = "next"
    /\ IsSome(ret.ret)
    /\ ret.ret = hostlist.val.hostlist_elems[2].latest
    /\ Len(out) = len0 - HostlistElem_len(hostlist.val.hostlist_elems[2])
    /\ Len(out) >= 4

\* At the range set r neither panic of construct_next can be reached: r
\* has returned a value before or has one to give, and it has one to give
\* right after a reset.
NoPanicAt(r) ==
    /\ IsSome(r.latest) \/ IsSome(Range_next(r).ret)
    /\ IsSome(Range_next(Range_reset(r)).ret)

\* Every range component of every element of h is out of reach of the two
\* panics, and the next call of next() on h does not panic.
NoPanicIn(h) ==
    /\ \A k \in 1..Len(h.hostlist_elems) :
          \A i \in RangeSlots(h.hostlist_elems[k].components) :
             NoPanicAt(h.hostlist_elems[k].components[i].r)
    /\ ~Hostlist_next(h).panic

\* C27: no call made on a constructed list or on a view of it panics: after
\* every sequence of next(), len(), is_empty() and view operations, every
\* range set has a latest or a next value and has a value right after a
\* reset, so neither `internal error` branch of construct_next is reached.
C27_NoPanic ==
    hostlist.ok =>
        /\ ~ret.panic
        /\ NoPanicIn(hostlist.val)
        /\ IsSome(view) => NoPanicIn(view[1])

\* C27 witness: a view taken in the middle of an element with two range
\* components, when its right range was at its last value, was pulled to
\* its end.
C27_Witness ==
    /\ hostlist.ok
    /\ IsSome(view)
    /\ view_at = 4
    /\ len0 = 6
    /\ Len(hostlist.val.hostlist_elems) = 2
    /\ count_ranges(fingerprint(hostlist.val.hostlist_elems[2])) = 2
    /\ Len(view_out) = 2
    /\ ret.op = "view_next"
    /\ ret.ret = None

\* An element written as an entry: its literal texts and the intervals of
\* its range sets.
ElemTokens(el) ==
    [i \in 1..Len(el.components) |->
        IF el.components[i].kind = "Static"
        THEN StaticTok(el.components[i].s)
        ELSE RangeTok(Bounds(el.components[i].r))]

\* The names the entries of e denote, taken one by one.
EntryNames(e) == UNION { NameSet(e[i]) : i \in 1..Len(e) }

\* C28: the names a constructed expression returns are, as a set, the names
\* its entries denote one by one: no name is returned that no entry
\* denotes, none that an entry denotes is missing after the drain, and
\* the elements of one fingerprint hold the names of the entries of that
\* fingerprint only, so entries that differ in their literal text or in
\* their layout are not merged.
C28_NamesPreserved ==
    hostlist.ok =>
        /\ (ret.op = "next" /\ IsSome(ret.ret)) =>
              ret.ret[1] \in EntryNames(expr)
        /\ nones >= 1 => { out[i] : i \in 1..Len(out) } = EntryNames(expr)
        /\ ret.op = "new" =>
              /\ \A k \in 1..Len(hostlist.val.hostlist_elems) :
                    \E i \in 1..Len(expr) :
                       fingerprint(hostlist.val.hostlist_elems[k])
                          = EntryFp(expr[i])
              /\ \A i \in 1..Len(expr) :
                    UNION { NameSet(ElemTokens(hostlist.val.hostlist_elems[k]))
                            : k \in ElemsWithFp(hostlist.val,
                                                EntryFp(expr[i])) }
                       = UNION { NameSet(expr[j]) : j \in SameClass(expr, i) }

\* C28 witness: n[1-3,2-5],m1[1-2] was constructed as the two elements
\* m1[1-2] and n[1-5] and drained: m11, m12, n1 .. n5 were returned.
C28_Witness ==
    /\ hostlist.ok
    /\ expr = << <<StaticTok(Lit_n), RangeTok(<< <<1, 3>>, <<2, 5>> >>)>>,
                 <<StaticTok(Lit_m1), RangeTok(<< <<1, 2>> >>)>> >>
    /\ Len(hostlist.val.hostlist_elems) = 2
    /\ nones >= 1
    /\ out = << <<109, 49, 49>>, <<109, 49, 50>>, <<110, 49>>, <<110, 50>>,
                <<110, 51>>, <<110, 52>>, <<110, 53>> >>

(* --------- specification of insertions into a consumed Range ----------- *)

\* The operands of merge in this specification: the range sets over
\* 0..MaxVal, the empty one of Range::new included.
CursorOthers == BuiltRanges(MaxOtherAdds)

CInit ==
    /\ range = Range_new
    /\ covered = {}
    /\ range_ret = [op |-> "new", ok |-> TRUE, ret |-> None,
                    operand |-> <<>>]
    /\ arIdle
    /\ srIdle
    /\ elemIdle
    /\ hlIdle
    /\ libIdle

CAddRange ==
    /\ \E sr \in LowIntervals : \E o \in Range_add_range(range, sr) :
          /\ range' = o.val
          /\ covered' = covered \cup (sr.start .. sr.end)
          /\ range_ret' = [op |-> "add_range", ok |-> o.ok, ret |-> None,
                           operand |-> << <<sr.start, sr.end>> >>]
    /\ UNCHANGED <<arVars, srVars, elemVars, hlVars, libVars>>

CMerge ==
    /\ \E other \in CursorOthers : \E o \in Range_merge(range, other) :
          /\ range' = o.val
          /\ covered' = covered \cup Span(other.ranges)
          /\ range_ret' = [op |-> "merge", ok |-> o.ok, ret |-> None,
                           operand |-> Bounds(other)]
    /\ UNCHANGED <<arVars, srVars, elemVars, hlVars, libVars>>

CNext ==
    /\ \E n \in {Range_next(range)} :
          /\ range' = n.self
          /\ range_ret' = [op |-> "next", ok |-> TRUE, ret |-> n.ret,
                           operand |-> <<>>]
    /\ UNCHANGED <<covered, arVars, srVars, elemVars, hlVars, libVars>>

SpecRangeCursor == CInit /\ [][CAddRange \/ CMerge \/ CNext]_vars

\* The range set after is rewound and before's latest value is kept: every
\* stored interval has its cursor at its start, len() is the number of
\* integers stored, next() gives the smallest of them, and latest() is what
\* it was in before.
Rewound(before, after) ==
    /\ \A i \in 1..Len(after.ranges) :
          after.ranges[i].current = Some(after.ranges[i].start)
    /\ Range_len(after) = Cardinality(Span(after.ranges))
    /\ after.ranges # <<>> =>
          Range_next(after).ret = Some(SetMin(Span(after.ranges)))
    /\ after.latest = before.latest

\* C31 as stated: every call of add_range or merge on a range set leaves
\* the cursor of every stored interval at its start and latest() as it was.
C31_InsertRewinds ==
    [][(range_ret'.op \in {"add_range", "merge"} /\ range_ret'.ok) =>
          Rewound(range, range')]_vars

\* C31, for the calls that insert something: every call of add_range, and
\* every call of merge whose operand holds at least one interval, leaves
\* the cursor of every stored interval at its start (len() is the
\* cardinality of the union, next() gives the smallest value) and latest()
\* as it was.
C31_InsertRewindsNonEmpty ==
    [][(range_ret'.op \in {"add_range", "merge"} /\ range_ret'.ok
           /\ range_ret'.operand # <<>>) =>
          Rewound(range, range')]_vars

\* C31 witness: the set {0, 2, 3} had returned 0 and 2 and then took an
\* interval it already held: it is rewound, with 2 as latest().
C31_Witness ==
    /\ range_ret.op = "add_range"
    /\ range_ret.operand = << <<2, 3>> >>
    /\ Bounds(range) = << <<0, 0>>, <<2, 3>> >>
    /\ range.latest = Some(2)
    /\ Range_len(range) = 3
    /\ Range_next(range).ret = Some(0)

\* C32: in every reachable state of a constructed list, is_empty() is true
\* iff len() is 0 iff the next call of next() returns None; a call of
\* is_empty() returns that value.
C32_EmptyIffZero ==
    hostlist.ok =>
        /\ Hostlist_is_empty(hostlist.val) <=> Hostlist_len(hostlist.val) = 0
        /\ Hostlist_len(hostlist.val) = 0
              <=> Hostlist_next(hostlist.val).ret = None
        /\ ~Hostlist_next(hostlist.val).panic
        /\ ret.op = "is_empty" =>
              ret.ret = Some(Hostlist_len(hostlist.val) = 0)

\* C32 witness: is_empty() returned true on a list of two elements after
\* all their names were returned.
C32_Witness ==
    /\ hostlist.ok
    /\ Len(hostlist.val.hostlist_elems) = 2
    /\ len0 >= 4
    /\ Len(out) = len0
    /\ ret.op = "is_empty"
    /\ ret.ret = Some(TRUE)

\* The step of the scan from st to n over the stored range r computed
\* nothing that wraps: `hi = a - 1` was done with a >= 1, `lo = b + 1` and
\* the queued (b + 1, hi) with b < u32::MAX, and the fragment that goes on
\* is not empty.
StepSafe(st, r, n) ==
    /\ n.hi # st.hi => (r.start >= 1 /\ n.hi = r.start - 1)
    /\ n.lo # st.lo => (r.end < U32_MAX /\ n.lo = r.end + 1)
    /\ \A p \in n.pushed \ st.pushed :
          /\ r.end < U32_MAX
          /\ p = <<r.end + 1, st.hi>>
          /\ p[1] <= p[2]
    /\ n.brk \/ n.lo <= n.hi

\* Every step of the scan of the fragment st over ranges from index i on is
\* safe, and the fragment that survives it is one SimpleRange::new accepts.
RECURSIVE ScanSafe(_, _, _)
ScanSafe(ranges, i, st) ==
    IF i > Len(ranges) \/ st.brk
    THEN st.keep =>
            /\ st.lo <= st.hi
            /\ st.hi < U32_MAX
            /\ SimpleRange_new(st.lo, st.hi).ok
    ELSE /\ StepSafe(st, ranges[i], ScanStep(st, ranges[i]))
         /\ ScanSafe(ranges, i + 1, ScanStep(st, ranges[i]))

\* `r.start - 1` of condense_ranges, evaluated from the second range of
\* the sorted vector on, does not wrap.
CondenseSafe(sorted) ==
    \A i \in 2..Len(sorted) : sorted[i].start >= 1

\* C33: in add_range and condense_ranges no u32 arithmetic wraps and no
\* fragment is lost: every pending fragment is valid, its scan computes
\* a - 1 only with a >= 1 and b + 1 only with b < u32::MAX and leaves a
\* fragment SimpleRange::new accepts, condense_ranges computes r.start - 1
\* only with r.start >= 1 and succeeds, and the call returns Ok with the
\* integers of the set and of the candidate stored.
C33_NoWrap ==
    /\ ar_pc = "loop" =>
          /\ \A f \in ar_queue :
                /\ f[1] <= f[2]
                /\ f[2] < U32_MAX
                /\ ScanSafe(ar_ranges, 1, ScanOf(ar_ranges, f))
                /\ ScanSafe(ar_ranges, 1,
                            [lo |-> f[1], hi |-> f[2], keep |-> TRUE,
                             brk |-> FALSE, pushed |-> {}])
          /\ Span(ar_ranges) \cup UNION { f[1]..f[2] : f \in ar_queue }
                = Span(ar_range.ranges) \cup (ar_cand[1]..ar_cand[2])
          /\ ar_queue = {} =>
                /\ CondenseSafe(SortRanges(ar_ranges))
                /\ condense_ranges([ar_range EXCEPT !.ranges = ar_ranges]).ok
    /\ ar_pc = "done" =>
          /\ range_ret.ok
          /\ Span(ar_ranges)
                = Span(ar_range.ranges) \cup (ar_cand[1]..ar_cand[2])

\* C33 witness: the candidate 0..u32::MAX - 1 was added to a set of three
\* intervals, the first starting at 0 and the last ending at u32::MAX - 1:
\* the call returned Ok with one interval.
C33_Witness ==
    /\ ar_pc = "done"
    /\ range_ret.ok
    /\ ar_cand = <<0, U32_MAX - 1>>
    /\ Len(ar_range.ranges) = 3
    /\ ar_range.ranges[1].start = 0
    /\ ar_range.ranges[3].end = U32_MAX - 1
    /\ Bounds([ranges |-> ar_ranges]) = << <<0, U32_MAX - 1>> >>

(* ------------------ the cursor of one SimpleRange ---------------------- *)

\* C34: an active cursor c of a range that was built satisfies
\* start <= c <= end, so `end - c + 1` of len() and `c + 1` of next() are
\* computed without wrapping, and len() is at most u32::MAX, the length of
\* the untouched range [0, u32::MAX - 1].
C34_CursorInRange ==
    simplerange.ok =>
        LET r == simplerange.val
        IN  /\ IsSome(r.current) =>
                  /\ r.start <= r.current[1]
                  /\ r.current[1] <= r.end
                  /\ r.end - r.current[1] + 1 \in 1..U32_MAX
                  /\ SimpleRange_len(r) = r.end - r.current[1] + 1
                  /\ r.current[1] # r.end =>
                        /\ r.current[1] + 1 <= U32_MAX
                        /\ SimpleRange_next(r).self.current =
                              Some(r.current[1] + 1)
            /\ SimpleRange_len(r) <= U32_MAX
            /\ SimpleRange_len(r) = U32_MAX <=>
                  (r.start = 0 /\ r.end = U32_MAX - 1 /\ r.current = Some(0))
            /\ sr_ret.op = "len" => sr_ret.ret[1] <= U32_MAX

\* C34 witness: len() of [0, u32::MAX - 1], called with the cursor at 0,
\* returned u32::MAX.
C34_Witness ==
    /\ simplerange.ok
    /\ sr_args = <<0, U32_MAX - 1>>
    /\ simplerange.val.current = Some(0)
    /\ sr_ret.op = "len"
    /\ sr_ret.ret = Some(U32_MAX)

=============================================================================
